---- MODULE Spec2Model ----
(***************************************************************************)
(* Schema inference and record normalisation of the Data-upload ingestion  *)
(* pipeline (data_processor.py with schemas.py): identify_table,           *)
(* validate_data and process_and_insert_data.                              *)
(*                                                                         *)
(* Text is modelled as a sequence of one-character strings, so that        *)
(* normalize_column_name really lowercases, strips and replaces.           *)
(***************************************************************************)
EXTENDS Integers, Sequences, FiniteSets, TLC

VARIABLES
    pc,          \* position in the operation under way
    df,          \* the DataFrame read from the file: [columns, rows]
    table_name,  \* the table the call works on ("None" before identification)
    validated,   \* outcome of validate_data: [raised, df]
    stats,       \* the statistics dict of process_and_insert_data
    store,       \* the SQLite file: table name -> sequence of rows
    conn,        \* the connection of the call: "none", "open", "committed",
                 \* "rolled_back" (open, the transaction ended), "closed"
    offset,      \* loop variable i of the batch loop
    error,       \* exception that left the call ("none" when none did)
    store_at_call, \* the store as the call under way found it
    writes,      \* the writes the call has sent to the store, in order
    revision,    \* the script whose process_and_insert_data runs
    calls,       \* calls of process_and_insert_data that have ended
    row,         \* rows of the current batch the per-row loop has been through
    successful_inserts, \* rows insert_data has counted as written
    date_str,    \* argument of parse_timestamp_flexible
    parsed,      \* outcome of parse_timestamp_flexible: [by, raised, value]
    file_path,   \* the file process_and_insert_data is given: [suffix, format, grid]
    uploaded_file, \* the file in the uploader of the Streamlit page
    session_state, \* st.session_state of the browser session
    df_preview,  \* outcome of the preview of the last script run: [shown, df]
    cleaned,     \* the df main() has read and cleaned before it calls the ingestion
    clicks,      \* clicks on the button "Process and Import Data" so far
    runs,        \* runs of the Streamlit script so far
    initialized  \* init_db has run on the database file

tablesVars == <<revision, calls, row, successful_inserts>>

callVars == <<stats, store, conn, offset, error, store_at_call, writes, tablesVars>>

parseVars == <<date_str, parsed>>

mainVars == <<uploaded_file, session_state, df_preview, cleaned, clicks, runs, initialized>>

vars == <<pc, df, table_name, validated, stats, store, conn, offset, error, store_at_call,
          writes, revision, calls, row, successful_inserts, date_str, parsed,
          file_path, mainVars>>

(* ------------------------------ bounds -------------------------------- *)
\* at most this many headers of a base header row are left out of a file
MaxDrop == 2
\* at most this many further headers are appended to a file's header row
MaxExtra == 1
\* at most this many data rows in a table
MaxRows == 2
\* at most this many data rows in a file that is ingested
MaxIngestRows == 3
\* at most this many calls of process_and_insert_data on one store
MaxCalls == 2
\* runs of the Streamlit script in a browser session
MaxRuns == 4
\* files put into the uploader in a browser session
MaxUploads == 2

(* ------------------------- small helpers ------------------------------ *)
Range(s) == {s[k] : k \in 1..Len(s)}

(* ------------------------- schemas.py --------------------------------- *)
\* variant: the entry KeylogImport is declared before the entry Keylogs
TableOrder_importFirst ==
    <<"Contacts", "InstalledApps", "Calls", "SMS", "ChatMessages", "KeylogImport", "Keylogs">>

\* dict insertion order of TABLE_SCHEMAS
TableOrder ==
    <<"Contacts", "InstalledApps", "Calls", "SMS", "ChatMessages", "Keylogs", "KeylogImport">>

\* "renames" is a dict: a sequence of <<key, value>> pairs in insertion order
TABLE_SCHEMAS ==
  [
    Contacts |->
      [columns |-> << <<"n", "a", "m", "e">>,
                     <<"p", "h", "o", "n", "e", "_", "n", "u", "m", "b", "e", "r">>,
                     <<"e", "m", "a", "i", "l">>,
                     <<"l", "a", "s", "t", "_", "c", "o", "n", "t", "a", "c", "t", "e", "d">> >>,
       types   |-> << "str", "str", "str", "datetime" >>,
       renames |-> << << <<"N", "a", "m", "e">>, <<"n", "a", "m", "e">> >>,
                     << <<"P", "h", "o", "n", "e", " ", "N", "u", "m", "b", "e", "r">>, <<"p", "h", "o", "n", "e", "_", "n", "u", "m", "b", "e", "r">> >>,
                     << <<"E", "m", "a", "i", "l", " ", "I", "d">>, <<"e", "m", "a", "i", "l">> >>,
                     << <<"L", "a", "s", "t", " ", "C", "o", "n", "t", "a", "c", "t", "e", "d">>, <<"l", "a", "s", "t", "_", "c", "o", "n", "t", "a", "c", "t", "e", "d">> >> >>],
    InstalledApps |->
      [columns |-> << <<"a", "p", "p", "l", "i", "c", "a", "t", "i", "o", "n", "_", "n", "a", "m", "e">>,
                     <<"p", "a", "c", "k", "a", "g", "e", "_", "n", "a", "m", "e">>,
                     <<"i", "n", "s", "t", "a", "l", "l", "_", "d", "a", "t", "e">> >>,
       types   |-> << "str", "str", "datetime" >>,
       renames |-> << << <<"A", "p", "p", "l", "i", "c", "a", "t", "i", "o", "n", " ", "N", "a", "m", "e">>, <<"a", "p", "p", "l", "i", "c", "a", "t", "i", "o", "n", "_", "n", "a", "m", "e">> >>,
                     << <<"P", "a", "c", "k", "a", "g", "e", " ", "N", "a", "m", "e">>, <<"p", "a", "c", "k", "a", "g", "e", "_", "n", "a", "m", "e">> >>,
                     << <<"I", "n", "s", "t", "a", "l", "l", "e", "d", " ", "D", "a", "t", "e">>, <<"i", "n", "s", "t", "a", "l", "l", "_", "d", "a", "t", "e">> >> >>],
    Calls |->
      [columns |-> << <<"c", "a", "l", "l", "_", "t", "y", "p", "e">>,
                     <<"t", "i", "m", "e">>,
                     <<"f", "r", "o", "m", "_", "t", "o">>,
                     <<"d", "u", "r", "a", "t", "i", "o", "n">>,
                     <<"l", "o", "c", "a", "t", "i", "o", "n">> >>,
       types   |-> << "str", "datetime", "str", "int", "str" >>,
       renames |-> << << <<"C", "a", "l", "l", " ", "t", "y", "p", "e">>, <<"c", "a", "l", "l", "_", "t", "y", "p", "e">> >>,
                     << <<"T", "i", "m", "e">>, <<"t", "i", "m", "e">> >>,
                     << <<"F", "r", "o", "m", "/", "T", "o">>, <<"f", "r", "o", "m", "_", "t", "o">> >>,
                     << <<"D", "u", "r", "a", "t", "i", "o", "n", " ", "(", "S", "e", "c", ")">>, <<"d", "u", "r", "a", "t", "i", "o", "n">> >>,
                     << <<"L", "o", "c", "a", "t", "i", "o", "n">>, <<"l", "o", "c", "a", "t", "i", "o", "n">> >> >>],
    SMS |->
      [columns |-> << <<"s", "m", "s", "_", "t", "y", "p", "e">>,
                     <<"t", "i", "m", "e">>,
                     <<"f", "r", "o", "m", "_", "t", "o">>,
                     <<"t", "e", "x", "t">>,
                     <<"l", "o", "c", "a", "t", "i", "o", "n">> >>,
       types   |-> << "str", "datetime", "str", "str", "str" >>,
       renames |-> << << <<"S", "M", "S", " ", "t", "y", "p", "e">>, <<"s", "m", "s", "_", "t", "y", "p", "e">> >>,
                     << <<"T", "i", "m", "e">>, <<"t", "i", "m", "e">> >>,
                     << <<"F", "r", "o", "m", "/", "T", "o">>, <<"f", "r", "o", "m", "_", "t", "o">> >>,
                     << <<"T", "e", "x", "t">>, <<"t", "e", "x", "t">> >>,
                     << <<"L", "o", "c", "a", "t", "i", "o", "n">>, <<"l", "o", "c", "a", "t", "i", "o", "n">> >> >>],
    ChatMessages |->
      [columns |-> << <<"m", "e", "s", "s", "e", "n", "g", "e", "r">>,
                     <<"t", "i", "m", "e">>,
                     <<"s", "e", "n", "d", "e", "r">>,
                     <<"t", "e", "x", "t">> >>,
       types   |-> << "str", "datetime", "str", "str" >>,
       renames |-> << << <<"M", "e", "s", "s", "e", "n", "g", "e", "r">>, <<"m", "e", "s", "s", "e", "n", "g", "e", "r">> >>,
                     << <<"T", "i", "m", "e">>, <<"t", "i", "m", "e">> >>,
                     << <<"S", "e", "n", "d", "e", "r">>, <<"s", "e", "n", "d", "e", "r">> >>,
                     << <<"T", "e", "x", "t">>, <<"t", "e", "x", "t">> >> >>],
    Keylogs |->
      [columns |-> << <<"a", "p", "p", "l", "i", "c", "a", "t", "i", "o", "n">>,
                     <<"t", "i", "m", "e">>,
                     <<"t", "e", "x", "t">> >>,
       types   |-> << "str", "datetime", "str" >>,
       renames |-> << << <<"A", "p", "p", "l", "i", "c", "a", "t", "i", "o", "n">>, <<"a", "p", "p", "l", "i", "c", "a", "t", "i", "o", "n">> >>,
                     << <<"T", "i", "m", "e">>, <<"t", "i", "m", "e">> >>,
                     << <<"T", "e", "x", "t">>, <<"t", "e", "x", "t">> >> >>],
    KeylogImport |->
      [columns |-> << <<"a", "p", "p", "l", "i", "c", "a", "t", "i", "o", "n">>,
                     <<"t", "i", "m", "e">>,
                     <<"t", "e", "x", "t">> >>,
       types   |-> << "str", "datetime", "str" >>,
       renames |-> << << <<"A", "p", "p", "l", "i", "c", "a", "t", "i", "o", "n">>, <<"a", "p", "p", "l", "i", "c", "a", "t", "i", "o", "n">> >>,
                     << <<"T", "i", "m", "e">>, <<"t", "i", "m", "e">> >>,
                     << <<"T", "e", "x", "t">>, <<"t", "e", "x", "t">> >> >>]
  ]

(* ------------------- str.lower / str.strip / str.replace -------------- *)
UpperToLower ==
  << <<"A", "a">>, <<"B", "b">>, <<"C", "c">>, <<"D", "d">>, <<"E", "e">>, <<"F", "f">>,
     <<"G", "g">>, <<"H", "h">>, <<"I", "i">>, <<"J", "j">>, <<"K", "k">>, <<"L", "l">>,
     <<"M", "m">>, <<"N", "n">>, <<"O", "o">>, <<"P", "p">>, <<"Q", "q">>, <<"R", "r">>,
     <<"S", "s">>, <<"T", "t">>, <<"U", "u">>, <<"V", "v">>, <<"W", "w">>, <<"X", "x">>,
     <<"Y", "y">>, <<"Z", "z">> >>

LowerOf ==
    [c \in {p[1] : p \in Range(UpperToLower)} |->
        (CHOOSE p \in Range(UpperToLower) : p[1] = c)[2]]

lower_char(c) == IF c \in DOMAIN LowerOf THEN LowerOf[c] ELSE c

lower(s) == [k \in 1..Len(s) |-> lower_char(s[k])]

Whitespace == {" ", "\t"}

RECURSIVE lstrip(_)
lstrip(s) == IF s # <<>> /\ Head(s) \in Whitespace THEN lstrip(Tail(s)) ELSE s

RECURSIVE rstrip(_)
rstrip(s) ==
    IF s # <<>> /\ s[Len(s)] \in Whitespace THEN rstrip(SubSeq(s, 1, Len(s) - 1)) ELSE s

strip(s) == rstrip(lstrip(s))

replace(s, old, new) == [k \in 1..Len(s) |-> IF s[k] = old THEN new ELSE s[k]]

(* ------------------------- data_processor.py -------------------------- *)
RenameKeys(table) == {p[1] : p \in Range(TABLE_SCHEMAS[table].renames)}

\* headers seen in exports that are neither canonical names nor aliases
MessyHeaders ==
    { <<" ", " ", "N", "A", "M", "E", " ">>,
      <<"P", "h", "o", "n", "e", " ", " ", "N", "u", "m", "b", "e", "r">>,
      <<"A", "P", "P", "L", "I", "C", "A", "T", "I", "O", "N">>,
      <<"T", "I", "M", "E">>,
      <<" ", "T", "e", "x", "t", " ">>,
      <<"N", "o", "t", "e", "s">> }

RawHeaders ==
    UNION {Range(TABLE_SCHEMAS[t].columns) \cup RenameKeys(t) : t \in Range(TableOrder)}
        \cup MessyHeaders

\* str(col).lower().strip().replace(' ', '_'), tabulated over the headers that occur
NormalizedNames == [h \in RawHeaders |-> replace(strip(lower(h)), " ", "_")]

normalize_column_name(col) ==
    IF col \in DOMAIN NormalizedNames THEN NormalizedNames[col]
    ELSE replace(strip(lower(col)), " ", "_")

\* file_headers of identify_table
FileHeaders(d) == {normalize_column_name(col) : col \in Range(d.columns)}

\* schema_headers and rename_headers of identify_table, per table
NormalizedHeaders ==
    [table \in Range(TableOrder) |->
        [schema_headers |->
            {normalize_column_name(col) : col \in Range(TABLE_SCHEMAS[table].columns)},
         rename_headers |->
            {normalize_column_name(col) : col \in RenameKeys(table)}]]

\* variant: the canonical set is built from the alias keys
SchemaHeaders_fromRenames(table) == NormalizedHeaders[table].rename_headers

SchemaHeaders(table) == NormalizedHeaders[table].schema_headers

\* variant: the alias keys are compared without being normalised
RenameHeaders_raw(table) == RenameKeys(table)

RenameHeaders(table) == NormalizedHeaders[table].rename_headers

\* variant: the keylog rule asks for no header at all
RequiredKeylogHeaders_none == {}

RequiredKeylogHeaders ==
    {normalize_column_name(h) : h \in {<<"a", "p", "p", "l", "i", "c", "a", "t", "i", "o", "n">>, <<"t", "i", "m", "e">>, <<"t", "e", "x", "t">>}}

\* variant: strict comparison with the threshold
RatioAtLeastThreshold_strict(n, d) == 10 * n > 8 * d

\* n / d >= 0.8 on the floats of the code: exact for the d in 1..5 that occur
RatioAtLeastThreshold(n, d) == 10 * n >= 8 * d

SchemaMatches(table, file_headers) ==
    RatioAtLeastThreshold(Cardinality(SchemaHeaders(table) \cap file_headers),
                          Cardinality(SchemaHeaders(table)))

\* variant: the alias names are not looked at, only the canonical ones
RenameMatches_canonicalOnly(table, file_headers) == SchemaMatches(table, file_headers)

RenameMatches(table, file_headers) ==
    RatioAtLeastThreshold(Cardinality(RenameHeaders(table) \cap file_headers),
                          Cardinality(RenameHeaders(table)))

\* the loop over TABLE_SCHEMAS.items(), from its k-th entry on
RECURSIVE identify_from(_, _)
identify_from(k, file_headers) ==
    IF k > Len(TableOrder) THEN "None"
    ELSE LET table == TableOrder[k] IN
         IF /\ table \in {"KeylogImport", "Keylogs"}
            /\ RequiredKeylogHeaders \subseteq file_headers
         THEN table
         ELSE IF SchemaMatches(table, file_headers) \/ RenameMatches(table, file_headers)
              THEN table
              ELSE identify_from(k + 1, file_headers)

identify_table(d) == identify_from(1, FileHeaders(d))

(* ------------------------------ cells ---------------------------------- *)
\* A cell of the DataFrame: a missing value (None / NaN), a str, an int, a
\* finite float (kept in tenths), a float infinity, or a datetime object
\* (tzinfo "None" for a naive one, "fixed" with utcoffset in minutes otherwise).
Missing == [kind |-> "missing"]
StrCell(chars) == [kind |-> "str", chars |-> chars]
IntCell(n) == [kind |-> "int", value |-> n]
FloatCell(tenths) == [kind |-> "float", tenths |-> tenths]
InfCell == [kind |-> "inf"]
DatetimeCell(dt) == [kind |-> "datetime", dt |-> dt]

Digits == <<"0", "1", "2", "3", "4", "5", "6", "7", "8", "9">>

IsDigit(c) == c \in Range(Digits)

DigitValue(c) == (CHOOSE k \in 1..10 : Digits[k] = c) - 1

AllDigits(s) == \A k \in 1..Len(s) : IsDigit(s[k])

RECURSIVE DecimalValue(_)
DecimalValue(s) ==
    IF s = <<>> THEN 0
    ELSE 10 * DecimalValue(SubSeq(s, 1, Len(s) - 1)) + DigitValue(s[Len(s)])

RECURSIVE DecimalDigits(_)
DecimalDigits(n) ==
    IF n < 10 THEN <<Digits[n + 1]>>
    ELSE DecimalDigits(n \div 10) \o <<Digits[(n % 10) + 1]>>

\* str(n) of an int
IntToStr(n) == IF n < 0 THEN <<"-">> \o DecimalDigits(-n) ELSE DecimalDigits(n)

TwoDigits(n) == <<Digits[(n \div 10) + 1], Digits[(n % 10) + 1]>>

(* --------------- dateutil.parser.parse and pytz (library) -------------- *)
\* the date dateutil fills missing fields from (datetime.now() of the run)
Today == [year |-> 2024, month |-> 6, day |-> 7, days_in_month |-> 30]

\* the exception classes in play and the class each derives from
ExceptionBase ==
    [ParserError |-> "ValueError", ValueError |-> "Exception", TypeError |-> "Exception",
     OverflowError |-> "ArithmeticError", ArithmeticError |-> "Exception",
     UnicodeDecodeError |-> "ValueError", BadZipFile |-> "Exception",
     XLRDError |-> "Exception", ImportError |-> "Exception",
     DatabaseError |-> "Exception",
     Exception |-> "BaseException"]

\* isinstance(exc, cls), exc given by the name of its class
RECURSIVE IsInstance(_, _)
IsInstance(exc, cls) ==
    \/ exc = cls
    \/ exc \in DOMAIN ExceptionBase /\ IsInstance(ExceptionBase[exc], cls)

\* parse raises ParserError: the text is no date, or names a date that does not exist
ParseFailed == [ok |-> FALSE, exc |-> "ParserError"]

\* parse raises OverflowError: a number of the text does not fit a C int
ParseOverflow == [ok |-> FALSE, exc |-> "OverflowError"]

\* parse raises TypeError: the argument is no string
ParseTypeError == [ok |-> FALSE, exc |-> "TypeError"]

IsLeap(y) == y % 4 = 0 /\ (y % 100 # 0 \/ y % 400 = 0)

DaysInMonth(y, mo) ==
    IF mo = 2 THEN (IF IsLeap(y) THEN 29 ELSE 28)
    ELSE IF mo \in {4, 6, 9, 11} THEN 30 ELSE 31

ValidDate(y, mo, d, h, mi, s) ==
    /\ y \in 1..9999 /\ mo \in 1..12 /\ d \in 1..DaysInMonth(y, mo)
    /\ h \in 0..23 /\ mi \in 0..59 /\ s \in 0..59

\* the digits of INT_MAX, 2147483647
CIntMax == <<"2", "1", "4", "7", "4", "8", "3", "6", "4", "7">>

RECURSIVE StripZeros(_)
StripZeros(s) == IF s # <<>> /\ s[1] = "0" THEN StripZeros(Tail(s)) ELSE s

\* a > b for digit strings of one length
RECURSIVE DigitsGreater(_, _)
DigitsGreater(a, b) ==
    IF a = <<>> THEN FALSE
    ELSE IF a[1] # b[1] THEN DigitValue(a[1]) > DigitValue(b[1])
    ELSE DigitsGreater(Tail(a), Tail(b))

\* int(s) > INT_MAX for a digit string s
ExceedsCInt(s) ==
    LET t == StripZeros(s) IN
    \/ Len(t) > Len(CIntMax)
    \/ Len(t) = Len(CIntMax) /\ DigitsGreater(t, CIntMax)

\* "YYYY-MM-DD HH:MM:SS"
IsIsoShape(s) ==
    /\ Len(s) = 19
    /\ s[5] = "-" /\ s[8] = "-" /\ s[11] = " " /\ s[14] = ":" /\ s[17] = ":"
    /\ \A k \in (1..19) \ {5, 8, 11, 14, 17} : IsDigit(s[k])

IsoFields(s) ==
    [year   |-> DecimalValue(SubSeq(s, 1, 4)),
     month  |-> DecimalValue(SubSeq(s, 6, 7)),
     day    |-> DecimalValue(SubSeq(s, 9, 10)),
     hour   |-> DecimalValue(SubSeq(s, 12, 13)),
     minute |-> DecimalValue(SubSeq(s, 15, 16)),
     second |-> DecimalValue(SubSeq(s, 18, 19))]

\* "+HH:MM" or "-HH:MM"
IsOffsetShape(s) ==
    /\ Len(s) = 6
    /\ s[1] \in {"+", "-"} /\ s[4] = ":"
    /\ \A k \in {2, 3, 5, 6} : IsDigit(s[k])

OffsetMinutes(s) ==
    LET mins == 60 * DecimalValue(SubSeq(s, 2, 3)) + DecimalValue(SubSeq(s, 5, 6))
    IN  IF s[1] = "-" THEN -mins ELSE mins

WithZone(f, tzinfo, utcoffset) ==
    [year |-> f.year, month |-> f.month, day |-> f.day,
     hour |-> f.hour, minute |-> f.minute, second |-> f.second,
     tzinfo |-> tzinfo, utcoffset |-> utcoffset]

\* dateutil.parser.parse on the shapes of text the model feeds it: an ISO
\* date-time without or with a UTC offset, a bare day of the month, a bare
\* number taken for a year that datetime.replace cannot hold; any other text
\* raises ParserError
dateutil_parse(s) ==
    IF Len(s) > 8 /\ Len(s) \notin {12, 14} /\ AllDigits(s) /\ ExceedsCInt(s)
    THEN ParseOverflow
    ELSE IF IsIsoShape(s)
    THEN LET f == IsoFields(s) IN
         IF ValidDate(f.year, f.month, f.day, f.hour, f.minute, f.second)
         THEN [ok |-> TRUE, dt |-> WithZone(f, "None", 0)]
         ELSE ParseFailed
    ELSE IF Len(s) = 25 /\ IsIsoShape(SubSeq(s, 1, 19)) /\ IsOffsetShape(SubSeq(s, 20, 25))
    THEN LET f == IsoFields(SubSeq(s, 1, 19)) IN
         IF ValidDate(f.year, f.month, f.day, f.hour, f.minute, f.second)
         THEN [ok |-> TRUE, dt |-> WithZone(f, "fixed", OffsetMinutes(SubSeq(s, 20, 25)))]
         ELSE ParseFailed
    ELSE IF Len(s) \in 1..2 /\ AllDigits(s) /\ DecimalValue(s) \in 1..Today.days_in_month
    THEN [ok |-> TRUE,
          dt |-> [year |-> Today.year, month |-> Today.month, day |-> DecimalValue(s),
                  hour |-> 0, minute |-> 0, second |-> 0,
                  tzinfo |-> "None", utcoffset |-> 0]]
    ELSE ParseFailed

\* pytz.timezone("UTC").localize(dt)
localize_utc(dt) == [dt EXCEPT !.tzinfo = "fixed", !.utcoffset = 0]

\* dt.astimezone(pytz.timezone("UTC")) of an aware dt: the same instant, read
\* on the UTC clock
astimezone_utc(dt) ==
    LET mins  == 60 * dt.hour + dt.minute - dt.utcoffset
        shift == IF mins < 0 THEN -1 ELSE IF mins >= 1440 THEN 1 ELSE 0
        m     == mins - 1440 * shift
        d     == dt.day + shift
        prevM == IF dt.month = 1 THEN 12 ELSE dt.month - 1
        prevY == IF dt.month = 1 THEN dt.year - 1 ELSE dt.year
        nextM == IF dt.month = 12 THEN 1 ELSE dt.month + 1
        nextY == IF dt.month = 12 THEN dt.year + 1 ELSE dt.year
        date  == IF d < 1
                 THEN [year |-> prevY, month |-> prevM, day |-> DaysInMonth(prevY, prevM)]
                 ELSE IF d > DaysInMonth(dt.year, dt.month)
                 THEN [year |-> nextY, month |-> nextM, day |-> 1]
                 ELSE [year |-> dt.year, month |-> dt.month, day |-> d]
    IN  [year |-> date.year, month |-> date.month, day |-> date.day,
         hour |-> m \div 60, minute |-> m % 60, second |-> dt.second,
         tzinfo |-> "fixed", utcoffset |-> 0]

(* ------------------ parse_timestamp_flexible (data_processor) ---------- *)
\* pd.isna(x)
isna(cell) == cell.kind = "missing"

\* not x
falsy(cell) ==
    \/ cell.kind = "str" /\ cell.chars = <<>>
    \/ cell.kind = "int" /\ cell.value = 0
    \/ cell.kind = "float" /\ cell.tenths = 0

\* a call that returns value / a call that exc leaves
Returns(value) == [raised |-> "none", value |-> value]
Raises(exc) == [raised |-> exc, value |-> Missing]

\* the try block of parse_timestamp_flexible
parse_timestamp_flexible_try(cell) ==
    IF cell.kind = "str"
    THEN LET r == dateutil_parse(cell.chars) IN
         IF ~r.ok THEN Raises(r.exc)
         ELSE IF r.dt.tzinfo = "None" THEN Returns(DatetimeCell(localize_utc(r.dt)))
         ELSE Returns(DatetimeCell(r.dt))
    ELSE IF cell.kind = "datetime" THEN Returns(cell)
    ELSE Returns(Missing)

\* the call as its caller sees it: the guard, the try block, except Exception
parse_timestamp_flexible_call(cell) ==
    IF isna(cell) \/ falsy(cell) THEN Returns(Missing)
    ELSE LET t == parse_timestamp_flexible_try(cell) IN
         IF t.raised # "none" /\ IsInstance(t.raised, "Exception")
         THEN Returns(Missing)
         ELSE t

\* the value validate_data gets from the call; no exception leaves it
parse_timestamp_flexible(cell) == parse_timestamp_flexible_call(cell).value

(* ------------------ parse_timestamp_flexible (tab2, tables) ------------ *)
\* parse(date_str) of any object: TypeError unless it is a str
dateutil_parse_any(cell) ==
    IF cell.kind = "str" THEN dateutil_parse(cell.chars) ELSE ParseTypeError

\* the try block: parse, then localize a naive result and convert an aware one
tab2_parse_timestamp_flexible_try(cell) ==
    LET r == dateutil_parse_any(cell) IN
    IF ~r.ok THEN Raises(r.exc)
    ELSE IF r.dt.tzinfo = "None" THEN Returns(DatetimeCell(localize_utc(r.dt)))
    ELSE Returns(DatetimeCell(astimezone_utc(r.dt)))

\* the call as its caller sees it: except (ValueError, TypeError)
tab2_parse_timestamp_flexible_call(cell) ==
    LET t == tab2_parse_timestamp_flexible_try(cell) IN
    IF t.raised # "none" /\ (IsInstance(t.raised, "ValueError") \/ IsInstance(t.raised, "TypeError"))
    THEN Returns(Missing)
    ELSE t

(* ------------------- pandas conversions (library) ---------------------- *)
\* dtype pandas gives a column holding these cells
ColumnDtype(cells) ==
    LET kinds == {cells[r].kind : r \in 1..Len(cells)} IN
    IF kinds \subseteq {"missing"} THEN "object"
    ELSE IF kinds \subseteq {"int"} THEN "int64"
    ELSE IF kinds \subseteq {"int", "float", "inf", "missing"} THEN "float64"
    ELSE IF kinds \subseteq {"datetime", "missing"}
            /\ Cardinality({cells[r].dt.tzinfo : r \in {q \in 1..Len(cells) : cells[q].kind = "datetime"}}) = 1
         THEN "datetime64"
    ELSE "object"

NaN == [kind |-> "nan"]
Inf == [kind |-> "inf"]
Num(tenths) == [kind |-> "num", tenths |-> tenths]

\* the number a str denotes for pd.to_numeric: digits with an optional sign and
\* an optional single fractional digit, or an infinity; NaN under errors='coerce'
NumberOfText(chars) ==
    LET s    == strip(chars)
        neg  == s # <<>> /\ s[1] = "-"
        body == IF s # <<>> /\ s[1] \in {"-", "+"} THEN Tail(s) ELSE s
        sign == IF neg THEN -1 ELSE 1
    IN  IF body # <<>> /\ AllDigits(body) THEN Num(sign * 10 * DecimalValue(body))
        ELSE IF /\ Len(body) >= 3
                /\ body[Len(body) - 1] = "."
                /\ AllDigits(SubSeq(body, 1, Len(body) - 2))
                /\ IsDigit(body[Len(body)])
             THEN Num(sign * (10 * DecimalValue(SubSeq(body, 1, Len(body) - 2))
                                + DigitValue(body[Len(body)])))
        ELSE IF lower(body) \in {<<"i", "n", "f">>, <<"i", "n", "f", "i", "n", "i", "t", "y">>} THEN Inf
        ELSE NaN

\* pd.to_numeric(x, errors='coerce') on one cell of an object or numeric column
to_numeric(cell) ==
    CASE cell.kind = "int"   -> Num(10 * cell.value)
      [] cell.kind = "float" -> Num(cell.tenths)
      [] cell.kind = "inf"   -> Inf
      [] cell.kind = "str"   -> NumberOfText(cell.chars)
      [] OTHER               -> NaN

\* .fillna(0)
fillna0(x) == IF x.kind = "nan" THEN Num(0) ELSE x

\* truncation towards zero of tenths / 10
Truncate(tenths) == IF tenths < 0 THEN -((-tenths) \div 10) ELSE tenths \div 10

\* pd.to_numeric(col, errors='coerce').fillna(0).astype(int): astype raises on
\* a non-finite value, else every cell becomes an int
IntegerColumn(cells) ==
    LET filled == [r \in 1..Len(cells) |-> fillna0(to_numeric(cells[r]))] IN
    IF \E r \in 1..Len(cells) : filled[r].kind = "inf"
    THEN [raised |-> TRUE, cells |-> cells]
    ELSE [raised |-> FALSE,
          cells  |-> [r \in 1..Len(cells) |-> IntCell(Truncate(filled[r].tenths))]]

DatetimeToStr(dt) ==
    DecimalDigits(dt.year) \o <<"-">> \o TwoDigits(dt.month) \o <<"-">> \o TwoDigits(dt.day)
        \o <<" ">> \o TwoDigits(dt.hour) \o <<":">> \o TwoDigits(dt.minute)
        \o <<":">> \o TwoDigits(dt.second)
        \o (IF dt.tzinfo = "None" THEN <<>>
            ELSE LET a == IF dt.utcoffset < 0 THEN -dt.utcoffset ELSE dt.utcoffset IN
                 <<IF dt.utcoffset < 0 THEN "-" ELSE "+">>
                     \o TwoDigits(a \div 60) \o <<":">> \o TwoDigits(a % 60))

FloatToStr(tenths) ==
    LET a == IF tenths < 0 THEN -tenths ELSE tenths IN
    (IF tenths < 0 THEN <<"-">> ELSE <<>>) \o DecimalDigits(a \div 10)
        \o <<".", Digits[(a % 10) + 1]>>

\* str(x) as Series.astype(str) applies it, in a column of the given dtype
CellToStr(cell, dtype) ==
    CASE cell.kind = "str"      -> cell.chars
      [] cell.kind = "int"      -> IntToStr(cell.value)
      [] cell.kind = "float"    -> FloatToStr(cell.tenths)
      [] cell.kind = "inf"      -> <<"i", "n", "f">>
      [] cell.kind = "datetime" -> DatetimeToStr(cell.dt)
      [] cell.kind = "missing"  ->
            IF dtype = "datetime64" THEN <<"N", "a", "T">> ELSE <<"n", "a", "n">>

\* df[col].astype(str)
TextColumn(cells) ==
    [r \in 1..Len(cells) |-> StrCell(CellToStr(cells[r], ColumnDtype(cells)))]

\* df[col].apply(parse_timestamp_flexible)
TimestampColumn(cells) == [r \in 1..Len(cells) |-> parse_timestamp_flexible(cells[r])]

(* --------------------- validate_data (data_processor) ------------------ *)
\* variant: the dict is keyed by the raw header instead of its normalised form
NormToOrig_raw(columns) ==
    [n \in Range(columns) |-> CHOOSE k \in 1..Len(columns) : columns[k] = n]

\* norm_to_orig: a later column with the same normalised name overwrites
NormToOrig(columns) ==
    [n \in {normalize_column_name(c) : c \in Range(columns)} |->
        LET last == CHOOSE k \in 1..Len(columns) :
                       /\ normalize_column_name(columns[k]) = n
                       /\ \A j \in (k + 1)..Len(columns) : normalize_column_name(columns[j]) # n
        IN  last]

\* column_mapping as the list of <<position of the original column, expected_col>>
RECURSIVE ColumnMapping(_, _, _)
ColumnMapping(expected, norm_to_orig, k) ==
    IF k > Len(expected) THEN <<>>
    ELSE LET norm_expected == normalize_column_name(expected[k]) IN
         (IF norm_expected \in DOMAIN norm_to_orig
          THEN << <<norm_to_orig[norm_expected], expected[k]>> >>
          ELSE <<>>) \o ColumnMapping(expected, norm_to_orig, k + 1)

TypeOf(table, col) ==
    TABLE_SCHEMAS[table].types[CHOOSE k \in 1..Len(TABLE_SCHEMAS[table].columns) :
                                   TABLE_SCHEMAS[table].columns[k] = col]

\* one pass of the conversion loop; an exception leaves the column as it was
ConvertColumn(cells, dtype) ==
    IF dtype = "datetime" THEN TimestampColumn(cells)
    ELSE IF dtype = "int" THEN IntegerColumn(cells).cells
    ELSE TextColumn(cells)

RaisedValueError == [raised |-> TRUE, df |-> [columns |-> <<>>, rows |-> <<>>]]

validate_data(d, table) ==
    IF table \notin DOMAIN TABLE_SCHEMAS THEN RaisedValueError
    ELSE
    LET column_mapping == ColumnMapping(TABLE_SCHEMAS[table].columns, NormToOrig(d.columns), 1)
        n       == Len(column_mapping)
        column(k) == [r \in 1..Len(d.rows) |-> d.rows[r][column_mapping[k][1]]]
        converted == [k \in 1..n |-> ConvertColumn(column(k), TypeOf(table, column_mapping[k][2]))]
    IN  IF n = 0 THEN RaisedValueError
        ELSE [raised |-> FALSE,
              df |-> [columns |-> [k \in 1..n |-> column_mapping[k][2]],
                      rows    |-> [r \in 1..Len(d.rows) |-> [k \in 1..n |-> converted[k][r]]]]]

(* ----------------------- input tables (header rows) ------------------- *)
RECURSIVE SeqOfSet(_)
SeqOfSet(S) ==
    IF S = {} THEN <<>>
    ELSE LET x == CHOOSE y \in S : TRUE IN <<x>> \o SeqOfSet(S \ {x})

RECURSIVE SetsUpTo(_, _)
SetsUpTo(U, k) ==
    IF k = 0 THEN {{}}
    ELSE LET P == SetsUpTo(U, k - 1) IN P \cup {S \cup {x} : S \in P, x \in U}

\* s without the positions in D
RECURSIVE Keep(_, _, _)
Keep(s, D, k) ==
    IF k > Len(s) THEN <<>>
    ELSE (IF k \in D THEN <<>> ELSE <<s[k]>>) \o Keep(s, D, k + 1)

RenameKeyList(table) ==
    [k \in 1..Len(TABLE_SCHEMAS[table].renames) |-> TABLE_SCHEMAS[table].renames[k][1]]

BaseHeaderRows ==
    {TABLE_SCHEMAS[t].columns : t \in Range(TableOrder)}
        \cup {RenameKeyList(t) : t \in Range(TableOrder)}

\* a base header row with up to maxDrop headers left out and up to maxExtra appended
HeaderRows(maxDrop, maxExtra, extras) ==
    {Keep(b, D, 1) \o SeqOfSet(E \ Range(b)) :
        b \in BaseHeaderRows,
        D \in SetsUpTo(1..5, maxDrop),
        E \in SetsUpTo(extras, maxExtra)}

PermutedRows(s) ==
    {[k \in 1..Len(s) |-> s[p[k]]] : p \in Permutations(1..Len(s))}

IdentifyInputs ==
    HeaderRows(MaxDrop, MaxExtra, RawHeaders)
        \cup UNION {PermutedRows(b) : b \in BaseHeaderRows}

NoRows == <<>>

NotValidated == [raised |-> FALSE, df |-> [columns |-> <<>>, rows |-> <<>>]]

\* the cells the data rows are drawn from
RawCellList ==
    << Missing,
       StrCell(<<"1", "2">>),
       StrCell(<<"a", "b", "c">>),
       StrCell(<<"i", "n", "f">>),
       StrCell(<<"2", "0", "2", "4", "-", "0", "6", "-", "0", "7", " ", "1", "3", ":", "2", "8", ":", "0", "0">>),
       StrCell(<<"2", "0", "2", "4", "-", "0", "6", "-", "0", "7", " ", "1", "3", ":", "2", "8", ":", "0", "0", "+", "0", "2", ":", "0", "0">>),
       IntCell(12),
       FloatCell(120),
       FloatCell(127),
       InfCell,
       DatetimeCell([year |-> 2024, month |-> 6, day |-> 7, hour |-> 13, minute |-> 28,
                     second |-> 0, tzinfo |-> "None", utcoffset |-> 0]),
       DatetimeCell([year |-> 2024, month |-> 6, day |-> 7, hour |-> 13, minute |-> 28,
                     second |-> 0, tzinfo |-> "fixed", utcoffset |-> 120]) >>

\* non-decreasing index sequences of length <= k: one cell per data row
RECURSIVE CellChoices(_)
CellChoices(k) ==
    IF k = 0 THEN {<<>>}
    ELSE LET P == CellChoices(k - 1) IN
         P \cup {Append(s, c) : s \in {q \in P : Len(q) = k - 1},
                                c \in 1..Len(RawCellList)}

NonDecreasing(s) == \A k \in 1..(Len(s) - 1) : s[k] <= s[k + 1]

\* a column as the reader builds it: ints next to NaN or floats become floats
AsRead(cells) ==
    IF ColumnDtype(cells) = "float64"
    THEN [r \in 1..Len(cells) |->
            IF cells[r].kind = "int" THEN FloatCell(10 * cells[r].value) ELSE cells[r]]
    ELSE cells

\* every column of a data row holds the same cell: the conversions of
\* validate_data work column by column, so each kind of column meets each cell
ColumnsOfCells ==
    {AsRead([r \in 1..Len(s) |-> RawCellList[s[r]]]) :
        s \in {q \in CellChoices(MaxRows) : NonDecreasing(q)}}

Table(header, cells) ==
    [columns |-> header,
     rows    |-> [r \in 1..Len(cells) |-> [c \in 1..Len(header) |-> cells[r]]]]

OwnHeaderRows(table) ==
    {Keep(b, D, 1) \o SeqOfSet(E \ Range(b)) :
        b \in {TABLE_SCHEMAS[table].columns, RenameKeyList(table)},
        D \in SetsUpTo(1..5, MaxDrop),
        E \in SetsUpTo(MessyHeaders, MaxExtra)}

HasIntegerField(table) == "int" \in Range(TABLE_SCHEMAS[table].types)

\* validate_data is fed every table name with its own (cut, extended) header
\* rows and with the full header rows of the other tables.  A datetime64 column
\* under an Integer field is left out: its int64 view is outside the cell model.
ValidateHeaderRows(table) == OwnHeaderRows(table) \cup BaseHeaderRows

ValidateCells(table) ==
    IF HasIntegerField(table)
    THEN {c \in ColumnsOfCells : ColumnDtype(c) # "datetime64"}
    ELSE ColumnsOfCells

(* ------------------------------ the store ------------------------------ *)
\* the tables the CREATE TABLE IF NOT EXISTS statements of init_db create
init_db_tables == {"Contacts", "InstalledApps", "Calls", "SMS", "ChatMessages", "Keylogs"}

\* rows per batch; schemas.py sets 1000, the model keeps the loop and scales it
BATCH_SIZE == 2

StoreTables == Range(TableOrder)

EmptyStore == [t \in StoreTables |-> <<>>]

NewStats == [total_rows |-> 0, processed_rows |-> 0, failed_rows |-> 0, table_name |-> "None"]

\* rows k of a validated DataFrame as to_sql appends them: column names with cells
StoredRows(d, from, to) ==
    [k \in 1..(to - from + 1) |-> [columns |-> d.columns, cells |-> d.rows[from + k - 1]]]

\* a store filled by an earlier ingestion of one canonical row per table
UsedStore ==
    [t \in StoreTables |->
        LET v == validate_data(Table(TABLE_SCHEMAS[t].columns, <<StrCell(<<"1", "2">>)>>), t).df
        IN  StoredRows(v, 1, 1)]

InitialStores == {EmptyStore, UsedStore}

\* no call of process_and_insert_data under way
NoCall ==
    /\ stats = NewStats
    /\ store = EmptyStore
    /\ conn = "none"
    /\ offset = 0
    /\ error = "none"
    /\ store_at_call = EmptyStore
    /\ writes = <<>>
    /\ revision = "data_processor"
    /\ calls = 0
    /\ row = 0
    /\ successful_inserts = 0

\* no call of parse_timestamp_flexible under way
NotParsed == [by |-> "none", raised |-> "none", value |-> [kind |-> "missing"]]

NoParse ==
    /\ date_str = [kind |-> "missing"]
    /\ parsed = NotParsed

(* ------------------------------- files -------------------------------- *)
\* a file: the suffix of its name, the format of its bytes, and its sheet as
\* rows of cells (the header row among them)
File(suffix, format, grid) == [suffix |-> suffix, format |-> format, grid |-> grid]

NoFile == File(<<>>, "none", <<>>)

\* the title a vendor export carries in the first cell of its first row
MetadataTitle ==
    <<"T", "r", "a", "c", "k", "i", "n", "g", " ",
      "S", "m", "a", "r", "t", "p", "h", "o", "n", "e">>

MetadataRow(n) == [c \in 1..n |-> IF c = 1 THEN StrCell(MetadataTitle) ELSE Missing]

\* the sheet of an export: the metadata row if it has one, the header row, the data
Grid(metadata, header, cells) ==
    (IF metadata THEN <<MetadataRow(Len(header))>> ELSE <<>>)
        \o <<[c \in 1..Len(header) |-> StrCell(header[c])]>>
        \o Table(header, cells).rows

\* the name pandas gives a column whose header cell is empty
Unnamed(c) == <<"U", "n", "n", "a", "m", "e", "d", ":", " ">> \o IntToStr(c - 1)

\* the DataFrame pandas builds from a sheet with row `header` (counted from 0)
\* as the header row
ReadGrid(grid, header) ==
    IF Len(grid) <= header THEN [columns |-> <<>>, rows |-> <<>>]
    ELSE LET h == grid[header + 1] IN
         [columns |-> [c \in 1..Len(h) |->
                          IF h[c].kind = "str" THEN h[c].chars ELSE Unnamed(c)],
          rows    |-> SubSeq(grid, header + 2, Len(grid))]

\* pd.read_csv: the bytes of a workbook are no text
read_csv(file) ==
    IF file.format = "csv"
    THEN [raised |-> {"none"}, df |-> ReadGrid(file.grid, 0)]
    ELSE [raised |-> {"UnicodeDecodeError"}, df |-> [columns |-> <<>>, rows |-> <<>>]]

\* pd.read_excel with an engine named: the reader is handed the open file, so
\* the bytes decide and the suffix does not.  openpyxl reads the format
\* "excel" (xlsx and its kin), xlrd the format "xls"; on other bytes openpyxl
\* raises BadZipFile and xlrd raises XLRDError (ImportError where xlrd is not
\* installed)
read_excel(file, header, engine) ==
    IF \/ file.format = "excel" /\ engine = "openpyxl"
       \/ file.format = "xls" /\ engine = "xlrd"
    THEN [raised |-> {"none"}, df |-> ReadGrid(file.grid, header)]
    ELSE [raised |-> IF engine = "openpyxl" THEN {"BadZipFile"}
                     ELSE {"XLRDError", "ImportError"},
          df |-> [columns |-> <<>>, rows |-> <<>>]]

CsvSuffix == <<".", "c", "s", "v">>

\* no Streamlit session
NoUpload ==
    /\ uploaded_file = NoFile
    /\ session_state = [upload_state |-> "absent"]
    /\ df_preview = [shown |-> FALSE, df |-> [columns |-> <<>>, rows |-> <<>>]]
    /\ cleaned = [columns |-> <<>>, rows |-> <<>>]
    /\ clicks = 0
    /\ runs = 0

NoMain ==
    /\ file_path = NoFile
    /\ NoUpload
    /\ initialized = FALSE

(* --------------------- identify_table as a function ------------------- *)
InitIdentify ==
    /\ pc = "start"
    /\ df \in {[columns |-> h, rows |-> NoRows] : h \in IdentifyInputs}
    /\ table_name = "None"
    /\ validated = NotValidated
    /\ NoCall
    /\ NoParse
    /\ NoMain

IdentifyTable ==
    /\ pc = "start"
    /\ table_name' = identify_table(df)
    /\ pc' = "identified"
    /\ UNCHANGED <<df, validated, callVars, parseVars, file_path, mainVars>>

NextIdentify == IdentifyTable

SpecIdentify == InitIdentify /\ [][NextIdentify]_vars

(* --------------------- validate_data as a function -------------------- *)
InitValidate ==
    /\ pc = "start"
    /\ table_name \in Range(TableOrder)
    /\ \E h \in ValidateHeaderRows(table_name), cells \in ValidateCells(table_name) :
          df = Table(h, cells)
    /\ validated = NotValidated
    /\ NoCall
    /\ NoParse
    /\ NoMain

ValidateData ==
    /\ pc = "start"
    /\ validated' = validate_data(df, table_name)
    /\ pc' = "validated"
    /\ UNCHANGED <<df, table_name, callVars, parseVars, file_path, mainVars>>

NextValidate == ValidateData

SpecValidate == InitValidate /\ [][NextValidate]_vars

(* ------------- parse_timestamp_flexible as a function ------------------ *)
\* date, time and offset parts of the ISO texts fed to the parser; the last
\* date and the last time do not exist
ParseDates ==
    {<<"2", "0", "2", "4", "-", "0", "6", "-", "0", "7">>,
     <<"2", "0", "2", "4", "-", "0", "1", "-", "0", "1">>,
     <<"2", "0", "2", "4", "-", "1", "2", "-", "3", "1">>,
     <<"2", "0", "2", "4", "-", "0", "2", "-", "3", "0">>}

ParseTimes ==
    {<<"1", "3", ":", "2", "8", ":", "0", "0">>,
     <<"0", "0", ":", "3", "0", ":", "0", "0">>,
     <<"2", "3", ":", "4", "5", ":", "0", "0">>,
     <<"2", "4", ":", "0", "0", ":", "0", "0">>}

ParseOffsets ==
    {<<>>,
     <<"+", "0", "2", ":", "0", "0">>,
     <<"-", "0", "5", ":", "3", "0">>,
     <<"+", "0", "0", ":", "0", "0">>}

\* texts that are no ISO date-time: blank, spaces, a word, a day of the month,
\* a five-digit number, an eleven-digit number
ParseOddTexts ==
    {<<>>,
     <<" ", " ">>,
     <<"a", "b", "c">>,
     <<"1", "2">>,
     <<"9", "9", "9", "9", "9">>,
     <<"0", "8", "3", "3", "5", "3", "9", "4", "5", "5", "0">>}

ParseInputs ==
    {StrCell(d \o <<" ">> \o t \o z) : d \in ParseDates, t \in ParseTimes, z \in ParseOffsets}
        \cup {StrCell(s) : s \in ParseOddTexts}
        \cup Range(RawCellList)
        \cup {IntCell(0), FloatCell(0)}

InitParse ==
    /\ pc = "start"
    /\ df = [columns |-> <<>>, rows |-> NoRows]
    /\ table_name = "None"
    /\ validated = NotValidated
    /\ NoCall
    /\ date_str \in ParseInputs
    /\ parsed = NotParsed
    /\ NoMain

Outcome(by, o) == [by |-> by, raised |-> o.raised, value |-> o.value]

\* parse_timestamp_flexible of data_processor.py is called
ParseTimestamp ==
    /\ pc = "start"
    /\ parsed' = Outcome("data_processor", parse_timestamp_flexible_call(date_str))
    /\ pc' = "parsed"
    /\ UNCHANGED <<df, table_name, validated, callVars, date_str, file_path, mainVars>>

\* parse_timestamp_flexible of tab2.py / tables.py is called
ParseTimestampTab2 ==
    /\ pc = "start"
    /\ parsed' = Outcome("tab2", tab2_parse_timestamp_flexible_call(date_str))
    /\ pc' = "parsed"
    /\ UNCHANGED <<df, table_name, validated, callVars, date_str, file_path, mainVars>>

NextParse == ParseTimestamp \/ ParseTimestampTab2

SpecParse == InitParse /\ [][NextParse]_vars

(* ------------- process_and_insert_data (data_processor) --------------- *)
IngestExtras == {<<"a", "p", "p", "l", "i", "c", "a", "t", "i", "o", "n">>, <<"N", "o", "t", "e", "s">>}

IngestHeaderRows == HeaderRows(MaxDrop, MaxExtra, IngestExtras)

IngestCellList == <<Missing, StrCell(<<"1", "2">>)>>

RECURSIVE IngestCellChoices(_)
IngestCellChoices(k) ==
    IF k = 0 THEN {<<>>}
    ELSE LET P == IngestCellChoices(k - 1) IN
         P \cup {Append(s, c) : s \in {q \in P : Len(q) = k - 1},
                                c \in 1..Len(IngestCellList)}

IngestColumnsOfCells ==
    {[r \in 1..Len(s) |-> IngestCellList[s[r]]] :
        s \in {q \in IngestCellChoices(MaxIngestRows) : NonDecreasing(q)}}

\* the files process_and_insert_data is given: name suffix and format of the bytes
IngestFileKinds ==
    { [suffix |-> CsvSuffix, format |-> "csv"],
      [suffix |-> CsvSuffix, format |-> "excel"],
      [suffix |-> <<".", "x", "l", "s", "x">>, format |-> "excel"],
      [suffix |-> <<".", "x", "l", "s", "m">>, format |-> "excel"],
      [suffix |-> <<".", "t", "x", "t">>, format |-> "csv"] }

Init ==
    /\ pc = "idle"
    /\ df = [columns |-> <<>>, rows |-> NoRows]
    /\ table_name = "None"
    /\ validated = NotValidated
    /\ stats = NewStats
    /\ store \in InitialStores
    /\ conn = "none"
    /\ offset = 0
    /\ error = "none"
    /\ store_at_call = store
    /\ writes = <<>>
    /\ revision = "data_processor"
    /\ calls = 0
    /\ row = 0
    /\ successful_inserts = 0
    /\ NoParse
    /\ \E kind \in IngestFileKinds, h \in IngestHeaderRows, cells \in IngestColumnsOfCells :
          file_path = File(kind.suffix, kind.format, Grid(FALSE, h, cells))
    /\ NoUpload
    /\ initialized = TRUE

\* variant: the except clause logs the error and returns
after_except_swallowed == "returned"

\* what the except clause of process_and_insert_data ends with: raise
after_except == "raised"

\* variant: the except clause leaves failed_rows as it was
Except_failedRowsUnset(s, e) ==
    /\ stats' = s
    /\ error' = e
    /\ pc' = after_except

\* except Exception: failed_rows = total_rows - processed_rows; raise
Except(s, e) ==
    /\ stats' = [s EXCEPT !.failed_rows = s.total_rows - s.processed_rows]
    /\ error' = e
    /\ pc' = after_except

\* the file read of process_and_insert_data: read_csv under the suffix .csv,
\* under any other suffix read_excel with openpyxl and, when that raises, xlrd
ReadAsTable(file) ==
    IF lower(file.suffix) = CsvSuffix THEN read_csv(file)
    ELSE LET first == read_excel(file, 0, "openpyxl") IN
         IF first.raised = {"none"} THEN first ELSE read_excel(file, 0, "xlrd")

\* entry of process_and_insert_data, the file read and stats["total_rows"] = len(df)
ReadFile ==
    /\ pc = "idle"
    /\ \E e \in ReadAsTable(file_path).raised :
          IF e = "none"
          THEN /\ df' = ReadAsTable(file_path).df
               /\ stats' = [NewStats EXCEPT !.total_rows = Len(df'.rows)]
               /\ pc' = "read"
               /\ UNCHANGED error
          ELSE /\ Except(NewStats, e)
               /\ UNCHANGED df
    /\ store_at_call' = store
    /\ writes' = <<>>
    /\ UNCHANGED <<table_name, validated, store, conn, offset>>
    /\ UNCHANGED <<tablesVars, parseVars, file_path, mainVars>>

\* table_name = identify_table(df); if not table_name: raise ValueError
Identify ==
    /\ pc = "read"
    /\ table_name' = identify_table(df)
    /\ IF table_name' = "None"
       THEN Except(stats, "ValueError")
       ELSE /\ stats' = [stats EXCEPT !.table_name = table_name']
            /\ pc' = "identified"
            /\ UNCHANGED error
    /\ UNCHANGED <<df, validated, store, conn, offset, store_at_call>>
    /\ UNCHANGED <<writes, tablesVars, parseVars, file_path, mainVars>>

\* df = validate_data(df, table_name)
Validate ==
    /\ pc = "identified"
    /\ validated' = validate_data(df, table_name)
    /\ IF validated'.raised
       THEN Except(stats, "ValueError")
       ELSE pc' = "validated" /\ UNCHANGED <<stats, error>>
    /\ UNCHANGED <<df, table_name, store, conn, offset, store_at_call>>
    /\ UNCHANGED <<writes, tablesVars, parseVars, file_path, mainVars>>

\* with sqlite3.connect(DATABASE_FILE) as conn: and the start of the for loop
Connect ==
    /\ pc = "validated"
    /\ conn' = "open"
    /\ offset' = 0
    /\ pc' = "inserting"
    /\ UNCHANGED <<df, table_name, validated, stats, store, error, store_at_call>>
    /\ UNCHANGED <<writes, tablesVars, parseVars, file_path, mainVars>>

BatchEnd == IF offset + BATCH_SIZE < Len(validated.df.rows)
            THEN offset + BATCH_SIZE ELSE Len(validated.df.rows)

\* variant: every pass of the loop writes the whole frame
WriteBatch_wholeFrame ==
    /\ pc = "inserting"
    /\ offset < Len(validated.df.rows)
    /\ store' = [store EXCEPT ![table_name] =
                    @ \o StoredRows(validated.df, 1, Len(validated.df.rows))]
    /\ stats' = [stats EXCEPT !.processed_rows = @ + Len(validated.df.rows)]
    /\ offset' = offset + BATCH_SIZE
    /\ writes' = Append(writes, [from |-> 1, to |-> Len(validated.df.rows), ok |-> TRUE])
    /\ UNCHANGED <<pc, df, table_name, validated, conn, error, store_at_call>>
    /\ UNCHANGED <<tablesVars, parseVars, file_path, mainVars>>

\* batch.to_sql(table_name, conn, if_exists='append') succeeds
WriteBatch ==
    /\ pc = "inserting"
    /\ offset < Len(validated.df.rows)
    /\ store' = [store EXCEPT ![table_name] = @ \o StoredRows(validated.df, offset + 1, BatchEnd)]
    /\ stats' = [stats EXCEPT !.processed_rows = @ + (BatchEnd - offset)]
    /\ offset' = offset + BATCH_SIZE
    /\ writes' = Append(writes, [from |-> offset + 1, to |-> BatchEnd, ok |-> TRUE])
    /\ UNCHANGED <<pc, df, table_name, validated, conn, error, store_at_call>>
    /\ UNCHANGED <<tablesVars, parseVars, file_path, mainVars>>

\* batch.to_sql raises: the with block rolls the open transaction back and the
\* exception reaches the except clause
WriteBatchFails ==
    /\ pc = "inserting"
    /\ offset < Len(validated.df.rows)
    /\ conn' = "rolled_back"
    /\ Except(stats, "DatabaseError")
    /\ writes' = Append(writes, [from |-> offset + 1, to |-> BatchEnd, ok |-> FALSE])
    /\ UNCHANGED <<df, table_name, validated, store, offset, store_at_call>>
    /\ UNCHANGED <<tablesVars, parseVars, file_path, mainVars>>

\* what has become of the connection when return stats hands control back:
\* nothing closes it, the with block of sqlite3 only ends the transaction; it
\* is closed if the interpreter has already reclaimed the local variable
ConnAfterReturn == {"committed", "closed"}

\* the loop is over: the with block commits, return stats
Return ==
    /\ pc = "inserting"
    /\ offset >= Len(validated.df.rows)
    /\ conn' \in ConnAfterReturn
    /\ pc' = "returned"
    /\ UNCHANGED <<df, table_name, validated, stats, store, offset, error, store_at_call>>
    /\ UNCHANGED <<writes, tablesVars, parseVars, file_path, mainVars>>

Next ==
    \/ ReadFile
    \/ Identify
    \/ Validate
    \/ Connect
    \/ WriteBatch
    \/ WriteBatchFails
    \/ Return

Spec == Init /\ [][Next]_vars

(* =============== the tab2.py / tables.py revisions ==================== *)
\* TABLE_SCHEMAS of tab2.py and tables.py: the first six entries of the one in
\* schemas.py, with the same columns, types and renames
TablesOrder == SubSeq(TableOrder, 1, 6)

\* file_headers = set(df.columns), the headers as written in the file
tables_HeadersOf(d) == Range(d.columns)

RECURSIVE tables_identify_from(_, _)
tables_identify_from(k, file_headers) ==
    IF k > Len(TablesOrder) THEN "None"
    ELSE LET table == TablesOrder[k] IN
         IF Range(RenameKeyList(table)) \subseteq file_headers THEN table
         ELSE IF Range(TABLE_SCHEMAS[table].columns) \subseteq file_headers THEN table
         ELSE tables_identify_from(k + 1, file_headers)

tables_identify_table(d) == tables_identify_from(1, tables_HeadersOf(d))

ColumnIndex(columns, name) == CHOOSE k \in 1..Len(columns) : columns[k] = name

package_name == <<"p", "a", "c", "k", "a", "g", "e", "_", "n", "a", "m", "e">>
install_date == <<"i", "n", "s", "t", "a", "l", "l", "_", "d", "a", "t", "e">>

\* df.drop_duplicates(subset=["package_name", "install_date"]): KeyError when a
\* column of the subset is not in the frame, else the first row of each pair of
\* values is kept (NaN equal to NaN)
drop_duplicates(d) ==
    IF ~({package_name, install_date} \subseteq Range(d.columns))
    THEN [raised |-> "KeyError", df |-> d]
    ELSE LET p == ColumnIndex(d.columns, package_name)
             i == ColumnIndex(d.columns, install_date)
             first(r) == \A q \in 1..(r - 1) :
                            <<d.rows[q][p], d.rows[q][i]>> # <<d.rows[r][p], d.rows[r][i]>>
             dropped == {r \in 1..Len(d.rows) : ~first(r)}
         IN  [raised |-> "none", df |-> [columns |-> d.columns, rows |-> Keep(d.rows, dropped, 1)]]

\* df.rename(columns=schema["renames"])
rename(d, table) ==
    LET renames == TABLE_SCHEMAS[table].renames
        new(c) == IF \E k \in 1..Len(renames) : renames[k][1] = c
                  THEN renames[CHOOSE k \in 1..Len(renames) : renames[k][1] = c][2]
                  ELSE c
    IN  [columns |-> [k \in 1..Len(d.columns) |-> new(d.columns[k])], rows |-> d.rows]

\* the lambda of the datetime branch: a str goes through parse_timestamp_flexible,
\* anything else stays as it is
tables_TimestampCell(cell) ==
    IF ~isna(cell) /\ cell.kind = "str"
    THEN tab2_parse_timestamp_flexible_call(cell)
    ELSE Returns(cell)

\* a column from the outcomes of its cells: the first exception that leaves
\* the lambda, or the values
ColumnOutcome(out, cells) ==
    IF \E r \in 1..Len(cells) : out[r].raised # "none"
    THEN [raised |-> out[CHOOSE r \in 1..Len(cells) :
                           /\ out[r].raised # "none"
                           /\ \A q \in 1..(r - 1) : out[q].raised = "none"].raised,
          cells  |-> cells]
    ELSE [raised |-> "none", cells |-> [r \in 1..Len(cells) |-> out[r].value]]

\* astype(int) raises ValueError on a value that is not finite
IntegerOutcome(c) == [raised |-> IF c.raised THEN "ValueError" ELSE "none", cells |-> c.cells]

\* the conversion of one column: [raised, cells]
tables_ConvertColumn(cells, dtype) ==
    IF dtype = "datetime"
    THEN ColumnOutcome([r \in 1..Len(cells) |-> tables_TimestampCell(cells[r])], cells)
    ELSE IF dtype = "int" THEN IntegerOutcome(IntegerColumn(cells))
    ELSE [raised |-> "none", cells |-> TextColumn(cells)]

\* the frame from its converted columns: a ValueError or TypeError of a
\* conversion comes out as ValueError, any other exception as it is
FrameOutcome(converted, d, expected) ==
    LET failed == {k \in 1..Len(expected) : converted[k].raised # "none"} IN
    IF failed # {}
    THEN LET k == CHOOSE j \in failed : \A q \in failed : j <= q
             e == converted[k].raised
         IN  [raised |-> IF IsInstance(e, "ValueError") \/ IsInstance(e, "TypeError")
                         THEN "ValueError" ELSE e,
              df |-> d]
    ELSE [raised |-> "none",
          df |-> [columns |-> expected,
                  rows |-> [r \in 1..Len(d.rows) |->
                              [k \in 1..Len(expected) |-> converted[k].cells[r]]]]]

\* validate_data of tab2.py / tables.py: every expected column must be there,
\* then each is converted to the type of its field
tables_validate_data(d, table) ==
    LET expected == TABLE_SCHEMAS[table].columns
        types    == TABLE_SCHEMAS[table].types
        column(k) == [r \in 1..Len(d.rows) |-> d.rows[r][ColumnIndex(d.columns, expected[k])]]
    IN
    IF ~(Range(expected) \subseteq Range(d.columns))
    THEN [raised |-> "ValueError", df |-> d]
    ELSE FrameOutcome([k \in 1..Len(expected) |-> tables_ConvertColumn(column(k), types[k])],
                      d, expected)

\* process_data: (tables.py only, for InstalledApps) drop duplicates, then
\* rename and validate; what is raised is logged and raised again
process_data(rev, table, d) ==
    LET dd == IF rev = "tables" /\ table = "InstalledApps"
              THEN drop_duplicates(d)
              ELSE [raised |-> "none", df |-> d]
    IN  IF dd.raised # "none" THEN dd
        ELSE tables_validate_data(rename(dd.df, table), table)

(* --------- process_and_insert_data (tab2.py, tables.py), CSV files ----- *)
TablesExtras == {<<"N", "o", "t", "e", "s">>}

\* the canonical and the alias header row of every table, whole or with one
\* header left out, with or without a column the schema does not know
TablesHeaderRows ==
    {Keep(b, D, 1) \o SeqOfSet(E \ Range(b)) :
        b \in BaseHeaderRows,
        D \in {{}} \cup {{k} : k \in 1..5},
        E \in SetsUpTo(TablesExtras, MaxExtra)}

\* a blank cell, a text that is no date, a text that is one
TablesCellList ==
    << Missing,
       StrCell(<<"a", "b", "c">>),
       StrCell(<<"2", "0", "2", "4", "-", "0", "6", "-", "0", "7", " ", "1", "3", ":", "2", "8", ":", "0", "0">>) >>

TablesColumnsOfCells ==
    {[r \in 1..Len(s) |-> TablesCellList[s[r]]] :
        s \in {q \in CellChoices(MaxIngestRows) :
                  NonDecreasing(q) /\ \A k \in 1..Len(q) : q[k] <= Len(TablesCellList)}}

NotProcessed == [raised |-> "none", df |-> [columns |-> <<>>, rows |-> <<>>]]

\* an InstalledApps row as an earlier ingestion left it
OldApp(package, date) ==
    [columns |-> TABLE_SCHEMAS["InstalledApps"].columns,
     cells   |-> <<StrCell(<<"o", "l", "d">>), package, date>>]

\* a store in use: InstalledApps holds an entry for each package name the
\* files carry, installed at the date the files carry
TablesUsedStore ==
    LET date == tab2_parse_timestamp_flexible_call(TablesCellList[3]).value IN
    [UsedStore EXCEPT !["InstalledApps"] =
        <<OldApp(TablesCellList[2], date), OldApp(TablesCellList[3], date)>>]

TablesInitialStores == {EmptyStore, TablesUsedStore}

InitTables ==
    /\ pc = "idle"
    /\ df = [columns |-> <<>>, rows |-> NoRows]
    /\ table_name = "None"
    /\ validated = NotProcessed
    /\ stats = NewStats
    /\ store \in TablesInitialStores
    /\ conn = "none"
    /\ offset = 0
    /\ error = "none"
    /\ store_at_call = store
    /\ writes = <<>>
    /\ revision \in {"tab2", "tables"}
    /\ calls = 0
    /\ row = 0
    /\ successful_inserts = 0
    /\ NoParse
    /\ NoMain

\* the entry of process_and_insert_data, the file read
TablesEnter ==
    /\ stats' = NewStats
    /\ table_name' = "None"
    /\ validated' = NotProcessed
    /\ conn' = "none"
    /\ offset' = 0
    /\ row' = 0
    /\ successful_inserts' = 0
    /\ error' = "none"
    /\ writes' = <<>>
    /\ store_at_call' = store
    /\ pc' = "read"
    /\ UNCHANGED <<store, revision, calls, parseVars, file_path, mainVars>>

\* df = pd.read_csv(file_path) of the first call
TablesReadFile ==
    /\ pc = "idle"
    /\ \E h \in TablesHeaderRows, cells \in TablesColumnsOfCells : df' = Table(h, cells)
    /\ TablesEnter

\* a later call is given the same file again
TablesReadAgain ==
    /\ pc \in {"returned", "returned_none", "raised"}
    /\ calls < MaxCalls
    /\ df' = df
    /\ TablesEnter

\* an exception reaches the except clauses of process_and_insert_data:
\* tables.py logs it and raises it again, tab2.py logs it and returns None
TablesLeave(e) ==
    /\ error' = IF revision = "tables" THEN e ELSE "none"
    /\ pc' = IF revision = "tables" THEN "raised" ELSE "returned_none"
    /\ calls' = calls + 1

\* table_name = identify_table(df); if not table_name: raise ValueError
TablesIdentify ==
    /\ pc = "read"
    /\ table_name' = tables_identify_table(df)
    /\ IF table_name' = "None"
       THEN TablesLeave("ValueError")
       ELSE pc' = "identified" /\ UNCHANGED <<error, calls>>
    /\ UNCHANGED <<df, validated, stats, store, conn, offset, store_at_call, writes>>
    /\ UNCHANGED <<revision, row, successful_inserts, parseVars, file_path, mainVars>>

\* df = process_data(table_name, df)
TablesProcessData ==
    /\ pc = "identified"
    /\ validated' = process_data(revision, table_name, df)
    /\ IF validated'.raised # "none"
       THEN TablesLeave(validated'.raised)
       ELSE pc' = "processed" /\ UNCHANGED <<error, calls>>
    /\ UNCHANGED <<df, table_name, stats, store, conn, offset, store_at_call, writes>>
    /\ UNCHANGED <<revision, row, successful_inserts, parseVars, file_path, mainVars>>

\* with sqlite3.connect(DATABASE_FILE) as conn: insert_data is entered
TablesConnect ==
    /\ pc = "processed"
    /\ conn' = "open"
    /\ offset' = 0
    /\ row' = 0
    /\ successful_inserts' = 0
    /\ pc' = "inserting"
    /\ UNCHANGED <<df, table_name, validated, stats, store, error, store_at_call, writes>>
    /\ UNCHANGED <<revision, calls, parseVars, file_path, mainVars>>

\* the batch goes row by row: tables.py, table InstalledApps
PerRow == revision = "tables" /\ table_name = "InstalledApps"

\* batch_df.to_sql(table_name, conn, if_exists="append") succeeds
TablesWriteBatch ==
    /\ pc = "inserting"
    /\ ~PerRow
    /\ offset < Len(validated.df.rows)
    /\ store' = [store EXCEPT ![table_name] = @ \o StoredRows(validated.df, offset + 1, BatchEnd)]
    /\ successful_inserts' = successful_inserts + (BatchEnd - offset)
    /\ offset' = offset + BATCH_SIZE
    /\ writes' = Append(writes, [from |-> offset + 1, to |-> BatchEnd, ok |-> TRUE])
    /\ UNCHANGED <<pc, df, table_name, validated, stats, conn, error, store_at_call>>
    /\ UNCHANGED <<revision, calls, row, parseVars, file_path, mainVars>>

\* batch_df.to_sql raises.  tables.py: insert_data logs and raises, the with
\* block rolls back, process_and_insert_data logs and raises.  tab2.py:
\* insert_data logs and returns, the with block commits, the call returns None
TablesWriteBatchFails ==
    /\ pc = "inserting"
    /\ ~PerRow
    /\ offset < Len(validated.df.rows)
    /\ writes' = Append(writes, [from |-> offset + 1, to |-> BatchEnd, ok |-> FALSE])
    /\ conn' = IF revision = "tables" THEN "rolled_back" ELSE "committed"
    /\ TablesLeave("DatabaseError")
    /\ UNCHANGED <<df, table_name, validated, stats, store, offset, store_at_call>>
    /\ UNCHANGED <<revision, row, successful_inserts, parseVars, file_path, mainVars>>

\* the value a stored row has in a column
Field(r, name) == r.cells[ColumnIndex(r.columns, name)]

\* variant: the table as the other scripts create it, package_name UNIQUE
Conflicts_package_name(old, new) == Field(old, package_name) = Field(new, package_name)

\* UNIQUE(package_name, install_date) of init_db in tables.py: two rows
\* conflict when both values are equal; SQLite takes every NULL for distinct
Conflicts(old, new) ==
    /\ Field(old, package_name) = Field(new, package_name)
    /\ Field(old, install_date) = Field(new, install_date)
    /\ Field(new, install_date) # Missing

\* INSERT OR REPLACE INTO InstalledApps: the rows in conflict with the new
\* one are deleted, the new one is inserted
InsertOrReplace(rows, new) ==
    LET stays(old) == ~Conflicts(old, new) IN Append(SelectSeq(rows, stays), new)

\* the row of the frame the per-row loop is at
CurrentRow == StoredRows(validated.df, offset + row + 1, offset + row + 1)[1]

\* cursor.execute(INSERT OR REPLACE ...) succeeds for the row
TablesUpsertRow ==
    /\ pc = "inserting"
    /\ PerRow
    /\ offset + row < BatchEnd
    /\ store' = [store EXCEPT ![table_name] = InsertOrReplace(@, CurrentRow)]
    /\ successful_inserts' = successful_inserts + 1
    /\ row' = row + 1
    /\ writes' = Append(writes, [from |-> offset + row + 1, to |-> offset + row + 1, ok |-> TRUE])
    /\ UNCHANGED <<pc, df, table_name, validated, stats, conn, offset, error, store_at_call>>
    /\ UNCHANGED <<revision, calls, parseVars, file_path, mainVars>>

\* variant: the error of the row is not caught and ends the call
TablesUpsertRowFails_fatal ==
    /\ pc = "inserting"
    /\ PerRow
    /\ offset + row < BatchEnd
    /\ writes' = Append(writes, [from |-> offset + row + 1, to |-> offset + row + 1, ok |-> FALSE])
    /\ conn' = "rolled_back"
    /\ TablesLeave("DatabaseError")
    /\ UNCHANGED <<df, table_name, validated, stats, store, offset, store_at_call>>
    /\ UNCHANGED <<revision, row, successful_inserts, parseVars, file_path, mainVars>>

\* cursor.execute raises sqlite3.Error for the row: logged, the loop goes on
TablesUpsertRowFails ==
    /\ pc = "inserting"
    /\ PerRow
    /\ offset + row < BatchEnd
    /\ row' = row + 1
    /\ writes' = Append(writes, [from |-> offset + row + 1, to |-> offset + row + 1, ok |-> FALSE])
    /\ UNCHANGED <<pc, df, table_name, validated, stats, store, conn, offset, error, store_at_call>>
    /\ UNCHANGED <<revision, calls, successful_inserts, parseVars, file_path, mainVars>>

\* the rows of the batch are through: conn.commit(), next batch
TablesCommitBatch ==
    /\ pc = "inserting"
    /\ PerRow
    /\ offset < Len(validated.df.rows)
    /\ offset + row = BatchEnd
    /\ offset' = offset + BATCH_SIZE
    /\ row' = 0
    /\ UNCHANGED <<pc, df, table_name, validated, stats, store, conn, error, store_at_call, writes>>
    /\ UNCHANGED <<revision, calls, successful_inserts, parseVars, file_path, mainVars>>

\* len(df) of the return statement: df is what process_data returned
RowsCounted == Len(validated.df.rows)

\* insert_data returns, the with block commits; tables.py returns the
\* statistics, tab2.py returns None
TablesReturn ==
    /\ pc = "inserting"
    /\ offset >= Len(validated.df.rows)
    /\ conn' = "committed"
    /\ IF revision = "tables"
       THEN /\ stats' = [table_name     |-> table_name,
                         total_rows     |-> RowsCounted,
                         processed_rows |-> successful_inserts,
                         failed_rows    |-> RowsCounted - successful_inserts]
            /\ pc' = "returned"
       ELSE /\ pc' = "returned_none"
            /\ UNCHANGED stats
    /\ calls' = calls + 1
    /\ UNCHANGED <<df, table_name, validated, store, offset, error, store_at_call, writes>>
    /\ UNCHANGED <<revision, row, successful_inserts, parseVars, file_path, mainVars>>

NextTables ==
    \/ TablesReadFile
    \/ TablesReadAgain
    \/ TablesIdentify
    \/ TablesProcessData
    \/ TablesConnect
    \/ TablesWriteBatch
    \/ TablesWriteBatchFails
    \/ TablesUpsertRow
    \/ TablesUpsertRowFails
    \/ TablesCommitBatch
    \/ TablesReturn

SpecTables == InitTables /\ [][NextTables]_vars

(* ===================== the Streamlit page (main.py) =================== *)
EmptyFrame == [columns |-> <<>>, rows |-> <<>>]

RECURSIVE Contains(_, _, _)
\* sub occurs in s at position k or later
Contains(s, sub, k) ==
    /\ k + Len(sub) - 1 <= Len(s)
    /\ \/ SubSeq(s, k, k + Len(sub) - 1) = sub
       \/ Contains(s, sub, k + 1)

\* any(df.columns.astype(str).str.contains('Tracking Smartphone', case=False))
HasMetadataTitle(d) ==
    \E c \in 1..Len(d.columns) : Contains(lower(d.columns[c]), lower(MetadataTitle), 1)

EndsWith(s, tail) == Len(tail) <= Len(s) /\ SubSeq(s, Len(s) - Len(tail) + 1, Len(s)) = tail

\* uploaded_file.type, the media type the browser reports for the file
MediaType(file) == IF lower(file.suffix) = CsvSuffix THEN "text/csv" ELSE "application/octet-stream"

\* the read of main(): read_csv for text/csv; else read_excel with the first
\* row as header and, when a column name holds the title of a metadata row,
\* again with the second row as header.  The preview asks in addition that
\* the first read is not empty.
main_read(file, preview) ==
    IF MediaType(file) = "text/csv" THEN read_csv(file)
    ELSE LET engine == IF EndsWith(lower(file.suffix), <<".", "x", "l", "s", "x">>)
                       THEN "openpyxl" ELSE "xlrd"
         IN  IF read_excel(file, 0, engine).raised # {"none"}
             THEN read_excel(file, 0, engine)
             ELSE IF /\ preview => read_excel(file, 0, engine).df.rows # <<>>
                     /\ HasMetadataTitle(read_excel(file, 0, engine).df)
                  THEN read_excel(file, 1, engine)
                  ELSE read_excel(file, 0, engine)

\* characters outside ASCII that occur in the cells
NonAscii == {"é"}

\* what sanitize_dataframe makes of the cell of an object column: stripped,
\* NA if nothing is left, then without the characters outside ASCII
sanitize_cell(cell) ==
    IF cell.kind # "str" THEN cell
    ELSE IF strip(cell.chars) = <<>> THEN Missing
    ELSE StrCell(SelectSeq(strip(cell.chars), LAMBDA ch : ch \notin NonAscii))

\* df.dropna(how='all'): the rows with a value
dropna_rows(d) ==
    [columns |-> d.columns,
     rows |-> SelectSeq(d.rows, LAMBDA r : \E c \in 1..Len(r) : ~isna(r[c]))]

\* df.dropna(axis=1, how='all'): the columns with a value
dropna_columns(d) ==
    LET empty == {c \in 1..Len(d.columns) : \A r \in 1..Len(d.rows) : isna(d.rows[r][c])}
    IN  [columns |-> Keep(d.columns, empty, 1),
         rows |-> [r \in 1..Len(d.rows) |-> Keep(d.rows[r], empty, 1)]]

clean_strings(d) ==
    [columns |-> d.columns,
     rows |-> [r \in 1..Len(d.rows) |->
                 [c \in 1..Len(d.rows[r]) |-> sanitize_cell(d.rows[r][c])]]]

\* sanitize_dataframe of utils.py
sanitize_dataframe(d) == dropna_rows(clean_strings(dropna_columns(dropna_rows(d))))

\* the files put into the uploader
MainHeaderRows == {TABLE_SCHEMAS["Contacts"].columns, RenameKeyList("Keylogs")}

MainFileKinds ==
    { [suffix |-> CsvSuffix, format |-> "csv", metadata |-> FALSE],
      [suffix |-> <<".", "x", "l", "s", "x">>, format |-> "excel", metadata |-> FALSE],
      [suffix |-> <<".", "x", "l", "s", "x">>, format |-> "excel", metadata |-> TRUE] }

MainCellList == <<Missing, StrCell(<<"1", "2">>), StrCell(<<" ", "é", " ">>)>>

MainColumnsOfCells ==
    { <<>>,
      <<MainCellList[2]>>,
      <<MainCellList[1], MainCellList[2]>>,
      <<MainCellList[2], MainCellList[3]>> }

MainFiles ==
    {File(kind.suffix, kind.format, Grid(kind.metadata, h, cells)) :
        kind \in MainFileKinds, h \in MainHeaderRows, cells \in MainColumnsOfCells}

\* the browser session opens on a database file init_db has not run on
InitMain ==
    /\ pc = "waiting"
    /\ df = EmptyFrame
    /\ table_name = "None"
    /\ validated = NotValidated
    /\ NoCall
    /\ NoParse
    /\ NoMain

\* python data_processor.py before the page is served: main() calls init_db()
InitDb ==
    /\ pc = "waiting"
    /\ runs = 0
    /\ ~initialized
    /\ initialized' = TRUE
    /\ UNCHANGED <<pc, df, table_name, validated, callVars, parseVars, file_path>>
    /\ UNCHANGED <<uploaded_file, session_state, df_preview, cleaned, clicks, runs>>

\* session_state.upload_state after the lines that initialise and set it
UploadState(shown, button) ==
    IF shown /\ button THEN "True"
    ELSE IF session_state.upload_state = "absent" THEN "False"
    ELSE session_state.upload_state

\* one run of the script, from the top to the call of process_and_insert_data
\* (or to the end when the call is not reached): `file` is in the uploader and
\* `button` is what st.button returns in this run
ScriptRun(file, button) ==
    /\ runs' = runs + 1
    /\ uploaded_file' = file
    /\ \E e \in (IF file = NoFile THEN {"no file"} ELSE main_read(file, TRUE).raised) :
         /\ df_preview' = [shown |-> e = "none",
                           df |-> IF e = "none"
                                  THEN sanitize_dataframe(main_read(file, TRUE).df)
                                  ELSE EmptyFrame]
         /\ session_state' = [upload_state |-> UploadState(e = "none", button)]
         /\ IF e = "none" /\ UploadState(TRUE, button) = "True"
            THEN \E r \in main_read(file, FALSE).raised :
                   IF r = "none"
                   THEN /\ cleaned' = sanitize_dataframe(main_read(file, FALSE).df)
                        /\ file_path' = file
                        /\ pc' = "idle"
                   ELSE UNCHANGED <<cleaned, file_path, pc>>
            ELSE UNCHANGED <<cleaned, file_path, pc>>
    /\ df' = EmptyFrame
    /\ table_name' = "None"
    /\ validated' = NotValidated
    /\ stats' = NewStats
    /\ conn' = "none"
    /\ offset' = 0
    /\ error' = "none"
    /\ writes' = <<>>
    /\ store_at_call' = store
    /\ UNCHANGED <<store, tablesVars, parseVars, initialized>>

\* the page is opened: the first run of the script, nothing in the uploader
PageLoad ==
    /\ pc = "waiting"
    /\ runs = 0
    /\ ScriptRun(NoFile, FALSE)
    /\ UNCHANGED clicks

\* a file is put into the uploader (the first, or another in its place)
Upload ==
    /\ pc = "waiting"
    /\ 0 < runs /\ runs < MaxRuns
    /\ runs - 1 - clicks < MaxUploads
    /\ \E file \in MainFiles : ScriptRun(file, FALSE)
    /\ UNCHANGED clicks

\* the button "Process and Import Data", drawn by the last run, is clicked
ClickProcess ==
    /\ pc = "waiting"
    /\ runs < MaxRuns
    /\ df_preview.shown
    /\ clicks' = clicks + 1
    /\ ScriptRun(uploaded_file, TRUE)

\* process_and_insert_data has returned or raised: main() shows the statistics
\* or the error, removes the temporary file and the run ends
MainAfterCall ==
    /\ pc \in {"returned", "raised"}
    /\ pc' = "waiting"
    /\ calls' = calls + 1
    /\ UNCHANGED <<df, table_name, validated, stats, store, conn, offset, error>>
    /\ UNCHANGED <<store_at_call, writes, revision, row, successful_inserts>>
    /\ UNCHANGED <<parseVars, file_path, mainVars>>

NextMain ==
    \/ InitDb
    \/ PageLoad
    \/ Upload
    \/ ClickProcess
    \/ ReadFile
    \/ Identify
    \/ Validate
    \/ Connect
    \/ WriteBatch
    \/ WriteBatchFails
    \/ Return
    \/ MainAfterCall

SpecMain == InitMain /\ [][NextMain]_vars

(* ====================== properties of identify_table ================== *)
SixTypes == {"Contacts", "InstalledApps", "Calls", "SMS", "ChatMessages", "Keylogs"}

IsPermutationOf(s, t) ==
    /\ Len(s) = Len(t)
    /\ Cardinality(Range(s)) = Len(s)
    /\ Range(s) = Range(t)

KeylogRuleApplies(d) == RequiredKeylogHeaders \subseteq FileHeaders(d)

\* canonical-field or alias overlap of at least four fifths
ClearsThreshold(table, d) ==
    LET fh == FileHeaders(d)
        s  == SchemaHeaders(table)
        r  == RenameHeaders(table)
    IN  \/ 5 * Cardinality(s \cap fh) >= 4 * Cardinality(s)
        \/ 5 * Cardinality(r \cap fh) >= 4 * Cardinality(r)

\* C1: when the Keylog special case does not apply, identify_table returns the
\* first type in declaration order whose canonical or alias overlap ratio is
\* >= 0.8 (and None when no type clears it): never an earlier type below the
\* threshold, never a later type when an earlier one clears it.
C1_FirstInDeclarationOrder ==
    (pc = "identified" /\ ~KeylogRuleApplies(df)) =>
        \/ /\ table_name = "None"
           /\ \A k \in 1..Len(TableOrder) : ~ClearsThreshold(TableOrder[k], df)
        \/ \E k \in 1..Len(TableOrder) :
              /\ table_name = TableOrder[k]
              /\ ClearsThreshold(TableOrder[k], df)
              /\ \A j \in 1..(k - 1) : ~ClearsThreshold(TableOrder[j], df)

\* two types clear the threshold (both at exactly 4/5) and the earlier one wins
C1_Witness ==
    /\ pc = "identified"
    /\ ~KeylogRuleApplies(df)
    /\ table_name = "Calls"
    /\ ClearsThreshold("SMS", df)
    /\ Cardinality(SchemaHeaders("Calls") \cap FileHeaders(df)) = 4

\* C2: every header set whose normalised form contains application, time and
\* text resolves to the Keylog type, whatever else it contains.
C2_KeylogBeforeRatioMatching ==
    (pc = "identified" /\ KeylogRuleApplies(df)) =>
        table_name \in {"Keylogs", "KeylogImport"}

\* C3: a header row that is a permutation of a type's canonical field list is
\* identified as that type, all of its canonical fields overlapping (ratio 1.0).
C3_CanonicalListIdentifies ==
    \A t \in SixTypes :
        (pc = "identified" /\ IsPermutationOf(df.columns, TABLE_SCHEMAS[t].columns)) =>
            /\ table_name = t
            /\ Cardinality(SchemaHeaders(t) \cap FileHeaders(df))
                   = Cardinality(SchemaHeaders(t))

C3_Witness ==
    /\ pc = "identified"
    /\ IsPermutationOf(df.columns, TABLE_SCHEMAS["SMS"].columns)
    /\ df.columns # TABLE_SCHEMAS["SMS"].columns
    /\ table_name = "SMS"

\* C4: a header row that is a type's alias list resolves to the same type as
\* the header row that is the type's canonical field list.
C4_AliasListSameAsCanonical ==
    \A t \in SixTypes :
        (pc = "identified" /\ IsPermutationOf(df.columns, RenameKeyList(t))) =>
            table_name = identify_table([columns |-> TABLE_SCHEMAS[t].columns,
                                         rows |-> NoRows])

C4_Witness ==
    /\ pc = "identified"
    /\ df.columns = RenameKeyList("Contacts")
    /\ table_name = "Contacts"

(* ================ properties of process_and_insert_data =============== *)
\* C5: when identify_table, called on the table read from the file, returns
\* None the call raises to its caller, and it leaves the store as it found it,
\* without ever opening a connection.
C5_UnidentifiedRaisesAndWritesNothing ==
    (/\ pc \notin {"idle", "read"}
     /\ ReadAsTable(file_path).raised = {"none"}
     /\ identify_table(df) = "None") =>
        /\ pc = "raised"
        /\ error = "ValueError"
        /\ conn = "none"
        /\ store = store_at_call

\* an unidentified file with data rows, met by a store that already holds rows
C5_Witness ==
    /\ pc = "raised"
    /\ table_name = "None"
    /\ Len(df.rows) > 0
    /\ store = UsedStore
    /\ stats.failed_rows = Len(df.rows)

(* ===================== properties of validate_data ==================== *)
Columns(table) == Range(TABLE_SCHEMAS[table].columns)

\* the declared aliases of a canonical field
AliasesOf(table, col) == {p[1] : p \in {q \in Range(TABLE_SCHEMAS[table].renames) : q[2] = col}}

HasCanonicalHeader(d, col) ==
    \E h \in Range(d.columns) : normalize_column_name(h) = normalize_column_name(col)

HasAliasHeader(d, table, col) ==
    \E h \in Range(d.columns), a \in AliasesOf(table, col) :
        normalize_column_name(h) = normalize_column_name(a)

OutColumns == Range(validated.df.columns)

\* C6: a canonical field whose normalised name, or one of whose declared
\* aliases, is among the raw headers is present in the output of validate_data.
C6_CanonicalOrAliasResolves ==
    pc = "validated" =>
        \A col \in Columns(table_name) :
            (HasCanonicalHeader(df, col) \/ HasAliasHeader(df, table_name, col)) =>
                (~validated.raised /\ col \in OutColumns)

\* the canonical fields validate_data can resolve from the raw headers
Resolved(d, table) == {col \in Columns(table) : HasCanonicalHeader(d, col)}

RawCell(r, col) ==
    df.rows[r][CHOOSE k \in 1..Len(df.columns) :
                  /\ normalize_column_name(df.columns[k]) = normalize_column_name(col)
                  /\ \A j \in (k + 1)..Len(df.columns) :
                        normalize_column_name(df.columns[j]) # normalize_column_name(col)]

OutCell(r, k) == validated.df.rows[r][k]

OutCellsOfKind(kind) ==
    {<<r, k>> \in (1..Len(validated.df.rows)) \X (1..Len(validated.df.columns)) :
        TypeOf(table_name, validated.df.columns[k]) = kind}

\* C8: every cell of an Integer field comes out as a whole number: '12' and
\* 12.0 as 12, a missing or non-numeric cell as 0.
C8_IntegerCellsAreWhole ==
    (pc = "validated" /\ ~validated.raised) =>
        \A rk \in OutCellsOfKind("int") :
            LET out == OutCell(rk[1], rk[2])
                raw == RawCell(rk[1], validated.df.columns[rk[2]])
            IN  /\ out.kind = "int"
                /\ raw \in {StrCell(<<"1", "2">>), IntCell(12), FloatCell(120)} => out.value = 12
                /\ raw \in {Missing, StrCell(<<"a", "b", "c">>)} => out.value = 0

\* C9: every cell of a Text field comes out as a str, a missing cell as "".
C9_TextCellsAreStrings ==
    (pc = "validated" /\ ~validated.raised) =>
        \A rk \in OutCellsOfKind("str") :
            LET out == OutCell(rk[1], rk[2])
                raw == RawCell(rk[1], validated.df.columns[rk[2]])
            IN  /\ out.kind = "str"
                /\ raw = Missing => out.chars = <<>>

\* C10: every cell of a Timestamp field comes out as a timezone-aware datetime
\* or as absent, whatever the raw cell was.
C10_TimestampCellsAwareOrAbsent ==
    (pc = "validated" /\ ~validated.raised) =>
        \A rk \in OutCellsOfKind("datetime") :
            LET out == OutCell(rk[1], rk[2])
            IN  \/ out.kind = "missing"
                \/ out.kind = "datetime" /\ out.dt.tzinfo # "None"

(* ------------------------ timestamp parsing ---------------------------- *)
\* C11: every value parse_timestamp_flexible gets by parsing a text is in the
\* target timezone (UTC): a text without zone is localized to it and a text
\* with a zone is converted to it
C11_ParsedValueInTargetTimezone ==
    (pc = "parsed" /\ date_str.kind = "str" /\ parsed.raised = "none"
        /\ parsed.value.kind = "datetime")
    => (parsed.value.dt.tzinfo # "None" /\ parsed.value.dt.utcoffset = 0)

\* C12: parse_timestamp_flexible is total: whatever the argument, the call
\* returns an instant or None and no exception leaves it; a text dateutil
\* cannot parse gives None
C12_NeverRaises ==
    pc = "parsed"
    => /\ parsed.raised = "none"
       /\ parsed.value.kind \in {"missing", "datetime"}
       /\ (date_str.kind = "str" /\ ~dateutil_parse(date_str.chars).ok)
            => parsed.value = Missing

(* ------------------- re-ingestion of InstalledApps --------------------- *)
CallEnded == pc \in {"returned", "returned_none", "raised"}

SamePair(a, b) ==
    /\ Field(a, package_name) = Field(b, package_name)
    /\ Field(a, install_date) = Field(b, install_date)

\* the store took every write of the call under way
AllWritesOk == \A k \in 1..Len(writes) : writes[k].ok

\* the call before this one left every row of the processed file in the table
FirstCallWroteAll ==
    \A r \in 1..Len(validated.df.rows) :
        StoredRows(validated.df, r, r)[1] \in Range(store_at_call[table_name])

\* C13: when tables.py has ingested an InstalledApps file a second time (the
\* store taking every row both times), the InstalledApps table has as many
\* rows as after the first ingestion and no two of its rows have the same
\* package_name and install_date
C13_ReingestionAddsNoRows ==
    (revision = "tables" /\ calls = 2 /\ pc = "returned" /\ table_name = "InstalledApps"
        /\ AllWritesOk /\ FirstCallWroteAll)
    => LET rows == store["InstalledApps"] IN
       /\ Len(rows) = Len(store_at_call["InstalledApps"])
       /\ \A j, k \in 1..Len(rows) : j # k => ~SamePair(rows[j], rows[k])

(* ----------------------------- batching -------------------------------- *)
Ceil(n, b) == (n + b - 1) \div b

Min(a, b) == IF a < b THEN a ELSE b

\* C14: the n validated rows go to the store in ceil(n / BATCH_SIZE) writes,
\* one after the other in row order, write k holding rows (k-1)*BATCH_SIZE+1
\* to min(k*BATCH_SIZE, n); when the store takes them all the call returns
\* with processed_rows = n and the rows appended in their order
C14_BatchesInOrder ==
    LET n == Len(validated.df.rows) IN
    (revision = "data_processor" /\ pc \in {"inserting", "returned", "raised"})
    => /\ Len(writes) <= Ceil(n, BATCH_SIZE)
       /\ \A k \in 1..Len(writes) :
             /\ writes[k].from = (k - 1) * BATCH_SIZE + 1
             /\ writes[k].to = Min(k * BATCH_SIZE, n)
       /\ pc = "returned"
            => /\ Len(writes) = Ceil(n, BATCH_SIZE)
               /\ stats.processed_rows = n
               /\ store[table_name] = store_at_call[table_name] \o StoredRows(validated.df, 1, n)

\* a frame of more than one batch has been written, the last batch a short one
C14_Witness ==
    /\ pc = "returned"
    /\ Len(writes) = 2
    /\ writes[1].to - writes[1].from + 1 = BATCH_SIZE
    /\ writes[2].to - writes[2].from + 1 < BATCH_SIZE
    /\ stats.processed_rows = Len(validated.df.rows)

(* ------------------------- failing writes ------------------------------ *)
SomeWriteFailed == \E k \in 1..Len(writes) : ~writes[k].ok

\* C15: for a table other than InstalledApps, when the store fails on a write
\* that write is the last one of the call, and the call ends by raising the
\* error to its caller
C15_BatchFailureIsFatal ==
    (table_name # "InstalledApps" /\ SomeWriteFailed)
    => /\ \A k \in 1..Len(writes) : ~writes[k].ok => k = Len(writes)
       /\ pc = "raised"
       /\ error # "none"

WritesOk == {k \in 1..Len(writes) : writes[k].ok}

WritesFailed == {k \in 1..Len(writes) : ~writes[k].ok}

\* C16: on the InstalledApps path of tables.py a row the store refuses does
\* not end the call: the call does not raise, every row of the frame is
\* tried in turn, and the statistics count the refused rows in failed_rows
\* and not in processed_rows
C16_RowFailureIsSkipped ==
    PerRow
    => /\ SomeWriteFailed => pc # "raised"
       /\ \A k \in 1..Len(writes) : writes[k].from = k /\ writes[k].to = k
       /\ pc = "returned"
            => /\ Len(writes) = Len(validated.df.rows)
               /\ stats.processed_rows = Cardinality(WritesOk)
               /\ stats.failed_rows = Cardinality(WritesFailed)

\* the first row was refused, the second row of that batch and the row of the
\* next batch were written
C16_Witness ==
    /\ PerRow
    /\ pc = "returned"
    /\ Len(writes) = BATCH_SIZE + 1
    /\ WritesFailed = {1}
    /\ stats.processed_rows = BATCH_SIZE
    /\ stats.failed_rows = 1

(* --------------------------- statistics -------------------------------- *)
RECURSIVE RowsIn(_)
RowsIn(w) ==
    IF w = <<>> THEN 0
    ELSE (IF Head(w).ok THEN Head(w).to - Head(w).from + 1 ELSE 0) + RowsIn(Tail(w))

\* rows the store took from the call under way
RowsWritten == RowsIn(writes)

\* C17: the statistics a call returns have total_rows = the data rows read
\* from the file, processed_rows = the rows written, and failed_rows = rows
\* read - rows written
C17_StatsCountRowsRead ==
    pc = "returned"
    => /\ stats.total_rows = Len(df.rows)
       /\ stats.processed_rows = RowsWritten
       /\ stats.failed_rows = Len(df.rows) - RowsWritten

(* ----------------------- the Contacts scenario ------------------------- *)
ContactsAliasFile == df.columns = RenameKeyList("Contacts")

\* C18: a file with the header row Name, Phone Number, Email Id, Last
\* Contacted and n data rows is identified as Contacts; unless the store
\* refuses a write the call does not raise, and it returns with n more rows
\* in table Contacts and the statistics total_rows = n, processed_rows = n,
\* failed_rows = 0, table_name = "Contacts"
C18_ContactsScenario ==
    LET n == Len(df.rows) IN
    (revision = "data_processor" /\ ContactsAliasFile /\ pc \notin {"idle", "read"})
    => /\ table_name = "Contacts"
       /\ pc = "raised" => SomeWriteFailed
       /\ pc = "returned"
            => /\ stats = [total_rows |-> n, processed_rows |-> n, failed_rows |-> 0,
                           table_name |-> "Contacts"]
               /\ Len(store["Contacts"]) = Len(store_at_call["Contacts"]) + n
               /\ \A t \in StoreTables \ {"Contacts"} : store[t] = store_at_call[t]

\* the scenario with two data rows has returned
C18_Witness ==
    /\ ContactsAliasFile
    /\ Len(df.rows) = 2
    /\ pc = "returned"
    /\ stats.processed_rows = 2
    /\ Len(store["Contacts"]) = Len(store_at_call["Contacts"]) + 2

(* ------------------------ what a call changes -------------------------- *)
IsPrefix(s, t) == Len(s) <= Len(t) /\ SubSeq(t, 1, Len(s)) = s

\* the rows of the processed frame, as rows of the table
FrameRows == Range(StoredRows(validated.df, 1, Len(validated.df.rows)))

\* C19: a call changes no table but the one the file was identified as; that
\* table keeps every row it had, unchanged and in place, the new rows coming
\* after them, whether the call returns or raises; only the row-by-row path
\* for InstalledApps may take a row away, and then a row of the file with the
\* same package_name and install_date is there in its place
C19_OnlyTheTableChanges ==
    /\ \A t \in StoreTables \ {table_name} : store[t] = store_at_call[t]
    /\ (table_name \in StoreTables /\ ~PerRow)
         => IsPrefix(store_at_call[table_name], store[table_name])
    /\ PerRow
         => \A old \in Range(store_at_call[table_name]) :
               \/ old \in Range(store[table_name])
               \/ \E new \in Range(store[table_name]) \cap FrameRows : SamePair(old, new)

\* a call on the row-by-row path has returned and a row the table had is gone
C19_Witness ==
    /\ PerRow
    /\ pc = "returned"
    /\ \E old \in Range(store_at_call[table_name]) : old \notin Range(store[table_name])
    /\ \E old \in Range(store_at_call[table_name]) : old \in Range(store[table_name])

(* --------------------------- the connection ---------------------------- *)
\* C20: the connection is opened inside the call and, however the call ends
\* (return, a failed batch write, any other error), it is closed by then
C20_ConnectionClosedAtExit ==
    revision = "data_processor"
    => /\ pc \in {"idle", "read", "identified", "validated"} => conn = "none"
       /\ pc \in {"returned", "raised"} => conn \in {"none", "closed"}


(* ==================== properties of the file read ===================== *)
\* the suffixes validate_file_type accepts
SupportedSuffixes ==
    {<<".", "c", "s", "v">>, <<".", "x", "l", "s", "x">>, <<".", "x", "l", "s">>}

\* file_path.suffix.lower() in ['.csv', '.xlsx', '.xls']
validate_file_type(file) == lower(file.suffix) \in SupportedSuffixes

\* C21: a file whose extension is not .csv, .xlsx or .xls makes the call fail
\* with an error for the caller: no table is read from it and nothing is written
C21_UnsupportedFileTypeIsFatal ==
    (~validate_file_type(file_path) /\ pc # "idle")
        => /\ pc = "raised"
           /\ error # "none"
           /\ df.columns = <<>>
           /\ writes = <<>>
           /\ store = store_at_call


(* =================== properties of the Streamlit page ================= *)
\* process_and_insert_data, called by main(), has read the file
CallHasRead == pc \in {"read", "identified", "validated", "inserting", "returned"}

\* a call of process_and_insert_data is under way or has just ended
CallStarted == pc \in {"idle", "read", "identified", "validated", "inserting",
                       "returned", "raised"}

EmptyRow(r) == \A c \in 1..Len(r) : isna(r[c])

\* C22: the rows process_and_insert_data normalizes and loads are the output of
\* the cleaning main() applies: no entirely empty row of the file is among them
\* and total_rows counts the cleaned rows
C22_CleanedTableIsIngested ==
    CallHasRead
        => /\ df.rows = cleaned.rows
           /\ \A r \in 1..Len(df.rows) : ~EmptyRow(df.rows[r])
           /\ stats.total_rows = Len(cleaned.rows)

\* the first row of the file is a vendor metadata row
IsMetadataFile(file) ==
    /\ Len(file.grid) >= 2
    /\ file.grid[1] = MetadataRow(Len(file.grid[1]))

\* C23: for an Excel export with a metadata row before the header row, the
\* ingestion main() starts works on the real header row and identifies the
\* record type from it, as the preview of the file does
C23_MetadataRowSkipped ==
    (IsMetadataFile(file_path) /\ (CallHasRead \/ pc = "raised"))
        => /\ df.columns = main_read(file_path, TRUE).df.columns
           /\ pc # "read" => table_name = identify_table(main_read(file_path, TRUE).df)

\* C24: init_db has completed before an ingestion started from the page writes
\* to the Store
C24_InitDbBeforeWrites ==
    (\E k \in 1..Len(writes) : writes[k].ok) => initialized

\* C25: every call of process_and_insert_data is caused by its own click on
\* "Process and Import Data": no more calls than clicks
C25_OneIngestionPerClick ==
    calls + (IF CallStarted THEN 1 ELSE 0) <= clicks


(* ============ properties of identification and the schema ============= *)
\* C26: every record type identify_table returns names one of the six tables
\* init_db creates; it never returns KeylogImport, whatever the header set
C26_IdentifiedTableIsCreated ==
    pc = "identified"
        => /\ table_name \in init_db_tables \cup {"None"}
           /\ table_name # "KeylogImport"

\* a header set the entry KeylogImport matches as well: the entry Keylogs,
\* declared before it, is returned
C26_Witness ==
    /\ pc = "identified"
    /\ KeylogRuleApplies(df)
    /\ ClearsThreshold("KeylogImport", df)
    /\ table_name = "Keylogs"


\* validate_data has run in the call
CallHasValidated == pc \in {"validated", "inserting", "returned", "raised"} /\ table_name # "None"

\* C27: when identify_table has returned a record type, validate_data with
\* that type resolves at least one canonical field: "No matching columns" is
\* not raised inside process_and_insert_data
C27_IdentifiedTableResolves ==
    CallHasValidated
        => /\ ~validated.raised
           /\ validated.df.columns # <<>>
           /\ Range(validated.df.columns) \subseteq Range(TABLE_SCHEMAS[table_name].columns)
           /\ pc = "raised" => error # "ValueError"

\* a file identified by its aliases alone, of which only some resolve
C27_Witness ==
    /\ pc = "validated"
    /\ ~SchemaMatches(table_name, FileHeaders(df))
    /\ RenameMatches(table_name, FileHeaders(df))
    /\ validated.df.columns # <<>>
    /\ Len(validated.df.columns) < Len(TABLE_SCHEMAS[table_name].columns)


(* ===================== properties of the statistics =================== *)
\* rows the call under way has added to the table it works on
RowsAdded ==
    IF table_name = "None" THEN 0
    ELSE Len(store[table_name]) - Len(store_at_call[table_name])

\* C28: throughout process_and_insert_data 0 <= processed_rows <= total_rows;
\* processed_rows is the sum of the lengths of the batches whose write has
\* completed and equals the number of rows the call has added to the Store;
\* on the error path failed_rows = total_rows - processed_rows
C28_StatsTrackTheStore ==
    /\ 0 <= stats.processed_rows
    /\ stats.processed_rows <= stats.total_rows
    /\ stats.processed_rows = RowsWritten
    /\ stats.processed_rows = RowsAdded
    /\ \A t \in StoreTables : t # table_name => store[t] = store_at_call[t]
    /\ pc = "raised" => stats.failed_rows = stats.total_rows - stats.processed_rows
    /\ pc # "raised" => stats.failed_rows = 0

\* a batch has been written and the write of the next one fails
C28_Witness ==
    /\ pc = "raised"
    /\ error = "DatabaseError"
    /\ stats.processed_rows = BATCH_SIZE
    /\ stats.failed_rows = stats.total_rows - BATCH_SIZE
    /\ stats.failed_rows > 0

====
